---- MODULE Spec2Model ----
(***************************************************************************)
(* Runtime of the voice-hotkey daemon (src/voice_hotkey): the bounded      *)
(* execution queue with its single worker and supervisor                   *)
(* (runtime/job_queue.py), the runtime state machine                       *)
(* (runtime/state_machine.py) and the v2 request handlers of app.py that   *)
(* run on the connection thread pool (runtime/controller.py).              *)
(*                                                                         *)
(* QueueSpec drives RuntimeJobQueue alone, through its public methods,     *)
(* with caller-supplied jobs as in tests/test_phase2_job_queue.py.         *)
(* Spec is the daemon: requests handled by connection threads, which       *)
(* mutate the state machine, start hold recorders and submit jobs.         *)
(***************************************************************************)
EXTENDS Integers, Sequences, FiniteSets, TLC

(* ---- bounds of the model ---- *)
\* connection threads (serve_with_thread_pool max_workers) / queue callers
NumConn == 3
\* job ids handed out by itertools.count before the model stops submitting
MaxJobs == 3
\* RuntimeJobQueue(max_size=...) as the daemon constructs it
DaemonMaxSize == 1
\* requests the daemon accepts before the model stops accepting
MaxRequests == 3
\* threads that call the queue's methods directly in QueueSpec
NumCallers == 2
\* RuntimeJobQueue(max_size=...) as QueueSpec constructs it
TestMaxSize == 2

Threads == 1..NumConn
JobIds == 1..MaxJobs
Pids == 1..MaxRequests
Callers == 1..NumCallers

(* ---- program constants ---- *)
CANCELLED_EXIT_CODE == 4
NO_SPEECH_EXIT_CODE == 3

STATE_IDLE == "idle"
STATE_COMMAND_HOLD == "command_hold"
STATE_DICTATE_HOLD == "dictate_hold"
STATE_WAKE_SESSION == "wake_session"
STATE_TRANSCRIBING == "transcribing"
RuntimeState == {STATE_IDLE, STATE_COMMAND_HOLD, STATE_DICTATE_HOLD, STATE_WAKE_SESSION, STATE_TRANSCRIBING}

\* job names used by the callers of QueueSpec (tests/test_phase2_job_queue.py)
QNames == {"same-job", "long-job"}
\* the two press-and-hold session kinds (DICTATE_STATE_PATH, COMMAND_STATE_PATH)
HoldKinds == {"dictate", "command"}

VARIABLES
    \* RuntimeJobQueue
    max_size,          \* _max_size
    pending_jobs,      \* _pending_jobs: deque of job ids, head first
    running_job,       \* _running_job: job id, 0 for None
    next_job_id,       \* _job_ids: next value of itertools.count(1)
    job_name,          \* _QueuedJob.name, "" before the job exists
    cancel_event,      \* _QueuedJob.cancel_event.is_set()
    future,            \* _QueuedJob.future: [st, val]
    worker_pc,         \* position of the worker thread in _worker_loop
    worker_job,        \* the worker's local `job`, 0 when it holds none
    worker_out,        \* how the running fn ended: [kind, rc]
    worker_restarts,   \* _worker_restarts
    \* threads (connection pool / queue callers)
    pc,                \* position of each thread
    req,               \* input mode of the request the thread handles, "" if none
    tjob,              \* job created by the thread's submit call, 0 if none
    rc,                \* the handler's local rc
    cancelled_any,     \* the stop handler's local cancelled_any
    tpid,              \* recorder pid the thread holds (Popen result or loaded descriptor)
    ops,               \* what the request has done so far, in order
    \* daemon
    machine_state,     \* RuntimeStateMachine._state
    state_file,        \* hold-session descriptor per kind: recorder pid, 0 when the file is absent
    procs,             \* pids of the live hold recorders
    next_pid,          \* next recorder pid
    n_requests,        \* requests accepted so far
    fn_phase,          \* position of the worker inside the running job's fn
    fn_pid,            \* recorder pid loaded by the running hold-stop job
    \* what the step just taken returned
    last_ret,          \* a queue call (submit, cancel_by_name)
    last_tr,           \* RuntimeStateMachine.transition: the TransitionResult
    last_done,         \* a request: its rc and what it did
    \* history
    fn_calls,          \* how many times each job's fn was invoked
    deliveries,        \* how many times an outcome was delivered to each future
    accepted,          \* job ids in the order submit appended them
    started,           \* job ids in the order the worker took them
    effects,           \* what each job's fn did after capturing
    stop_hit           \* per job: how a command-stop's cancel found it running ("" if it did not)

queue_vars == <<max_size, pending_jobs, running_job, next_job_id, job_name, cancel_event, future,
                worker_pc, worker_job, worker_out, worker_restarts>>
thread_vars == <<pc, req, tjob, rc, cancelled_any, tpid, ops>>
daemon_vars == <<machine_state, state_file, procs, next_pid, n_requests, fn_phase, fn_pid>>
port_vars == <<last_ret, last_tr, last_done>>
hist_vars == <<fn_calls, deliveries, accepted, started, effects, stop_hit>>
core_vars == <<queue_vars, thread_vars, daemon_vars, port_vars, hist_vars>>

\* one connection of the daemon's socket, from accept to close
VARIABLES
    conn,              \* the connection a pool thread is serving
    conn_log           \* the connections served so far, as they were when closed
conn_vars == <<conn, conn_log>>

\* one kind of hold session (dictation) as the files and processes it leaves behind
VARIABLES
    h_desc,            \* the persisted descriptor file (DICTATE_STATE_PATH)
    h_procs,           \* per session: what now runs under the pid its recorder got
    h_tmpdirs,         \* the sessions whose tmpdir exists
    h_foreign,         \* directories outside the sessions' tmpdirs that still exist
    h_next,            \* the next session (its pid and its tmpdir)
    h_ffmpeg,          \* the ffmpeg binary is found
    h_tampers,         \* how often the descriptor was rewritten from outside
    h_last             \* the last start or stop: what it found and did
hold_vars == <<h_desc, h_procs, h_tmpdirs, h_foreign, h_next, h_ffmpeg, h_tampers, h_last>>

\* voice_controls: the daemon process, its ACTIVE_SESSION, the recovery file
\* (RECOVERY_STATE_PATH), the voice-dictate-hold-* tmpdirs, the recorders, and
\* the last request's outcome
VARIABLES vc_up, ACTIVE_SESSION, recovery_state, vc_tmpdirs, vc_procs, vc_next, vc_last
vc_vars == <<vc_up, ACTIVE_SESSION, recovery_state, vc_tmpdirs, vc_procs, vc_next, vc_last>>

\* one endpointed capture session of the daemon (orchestrator.py)
VARIABLES ep
ep_vars == <<ep>>

\* the sub-models of the daemon's surroundings added after the first three
\* the wake listener process (wakeword.py): its loop state, and what its last
\* iteration did
VARIABLES wk, wk_last
wk_vars == <<wk, wk_last>>

\* one invocation of the command-line client (request_daemon of either code base)
VARIABLES cl
cl_vars == <<cl>>

\* daemon processes starting up on one socket path (run_daemon of either code base)
VARIABLES su
su_vars == <<su>>

\* a serving daemon process and the signals sent to it (run_daemon of either code base)
VARIABLES sd
sd_vars == <<sd>>

\* one EndpointVAD object (vad.py) and the frames it was given
VARIABLES vd
vd_vars == <<vd>>

\* the connection pool in front of the execution queue
VARIABLE pl
pl_vars == <<pl>>

\* the wake word flag file and the handlers that write it
VARIABLE tg
tg_vars == <<tg>>
last_vars == <<pl_vars, tg_vars>>

late_vars == <<cl_vars, su_vars, sd_vars, vd_vars, last_vars>>
more_vars == <<ep_vars, wk_vars, late_vars>>
first_vars == <<conn_vars, hold_vars, vc_vars>>
sub_vars == <<first_vars, more_vars>>
vars == <<core_vars, sub_vars>>

\* no queue call returned in this step
NoRet == [op |-> "none", name |-> "", made |-> 0, job |-> 0, hit |-> FALSE]
\* no transition was made in this step
NoTr == [action |-> "", previous_state |-> "", next_state |-> "", allowed |-> FALSE, reason |-> ""]
\* no request returned in this step
NoDone == [req |-> "", rc |-> 0, ops |-> <<>>, job |-> 0, did |-> {}, hit |-> ""]
NoPorts == last_ret' = NoRet /\ last_tr' = NoTr /\ last_done' = NoDone
\* for the steps that set last_done themselves (Goto, Finish)
NoPortsBut == last_ret' = NoRet /\ last_tr' = NoTr

(* ---- concurrent.futures.Future ---- *)
NewFuture == [st |-> "pending", val |-> 0]
\* a future no caller holds any more
Released == [st |-> "released", val |-> 0]
NoFuture == [st |-> "none", val |-> 0]
FutureDone(f) == f.st \in {"cancelled", "result", "exception"}
\* Future.cancel(): only a future that has not finished becomes cancelled
Future_cancel(f) == IF f.st = "pending" THEN [st |-> "cancelled", val |-> 0] ELSE f
\* Future.set_result / set_exception raise InvalidStateError on a finished future
Future_can_set(f) == f.st = "pending"

(* ---- RuntimeJobQueue.submit ---- *)
\* lines 60-68: the job record and its id are created before the lock is taken
AllocJob(j, name) ==
    /\ j = next_job_id
    /\ j <= MaxJobs
    /\ next_job_id' = next_job_id + 1
    /\ job_name' = [job_name EXCEPT ![j] = name]

\* a queue that admits one job too many
QueueFullOffByOne == Len(pending_jobs) > max_size
\* line 70
QueueFull == Len(pending_jobs) >= max_size

\* lines 69-82, under the lock: reject when full, else append at the tail
SubmitLocked(j) ==
    IF QueueFull
    THEN /\ pending_jobs' = pending_jobs
         /\ accepted' = accepted
         /\ future' = future
    ELSE /\ pending_jobs' = Append(pending_jobs, j)
         /\ accepted' = Append(accepted, j)
         /\ future' = [future EXCEPT ![j] = NewFuture]
\* the future returned to the caller, 0 for None
SubmitReturn(j) == IF QueueFull THEN 0 ELSE j

(* ---- RuntimeJobQueue.cancel_by_name ---- *)
\* a cancel that signals the running job whatever its name
RunningAny(name) == running_job # 0
\* line 111
RunningMatches(name) == running_job # 0 /\ job_name[running_job] = name
PendingMatches(name) == {pending_jobs[i] : i \in {k \in DOMAIN pending_jobs : job_name[pending_jobs[k]] = name}}
KeepJob(j, name) == job_name[j] # name
\* a cancel that leaves the cancelled jobs in the deque
RemainingJobsKeepAll(name) == pending_jobs
\* lines 121-130
RemainingJobs(name) == SelectSeq(pending_jobs, LAMBDA j : KeepJob(j, name))

\* lines 110-130, under the lock
CancelLocked(name) ==
    /\ cancel_event' = IF RunningMatches(name)
                       THEN [cancel_event EXCEPT ![running_job] = TRUE]
                       ELSE cancel_event
    /\ future' = [j \in JobIds |-> IF j \in PendingMatches(name) THEN Future_cancel(future[j]) ELSE future[j]]
    /\ deliveries' = [j \in JobIds |-> IF j \in PendingMatches(name) THEN deliveries[j] + 1 ELSE deliveries[j]]
    /\ pending_jobs' = RemainingJobs(name)
CancelReturn(name) == RunningMatches(name) \/ PendingMatches(name) # {}

(* ---- RuntimeJobQueue._worker_loop ---- *)
\* a worker that pops the newest job (deque.pop)
PopRight == [job |-> pending_jobs[Len(pending_jobs)], rest |-> SubSeq(pending_jobs, 1, Len(pending_jobs) - 1)]
\* line 138: deque.popleft
PopLeft == [job |-> Head(pending_jobs), rest |-> Tail(pending_jobs)]
NextJob == PopLeft.job
RestJobs == PopLeft.rest

\* lines 135-150: wait for a job, pop it and publish it as the running job
WorkerTake ==
    /\ worker_pc = "wait"
    /\ pending_jobs # <<>>
    /\ worker_job' = NextJob
    /\ running_job' = NextJob
    /\ pending_jobs' = RestJobs
    /\ started' = Append(started, NextJob)
    /\ worker_pc' = "try"
    /\ UNCHANGED <<max_size, next_job_id, job_name, cancel_event, future, worker_out, worker_restarts>>
    /\ NoPorts
    /\ UNCHANGED <<thread_vars, daemon_vars, fn_calls, deliveries, accepted, effects, stop_hit>>
    /\ UNCHANGED sub_vars

\* lines 152-159: skip a cancelled job, otherwise call fn
WorkerTry ==
    /\ worker_pc = "try"
    /\ IF future[worker_job].st = "cancelled"
       THEN /\ worker_pc' = "finally"
            /\ fn_calls' = fn_calls
       ELSE /\ worker_pc' = "fn"
            /\ fn_calls' = [fn_calls EXCEPT ![worker_job] = @ + 1]
    /\ UNCHANGED <<max_size, pending_jobs, running_job, next_job_id, job_name, cancel_event, future,
                   worker_job, worker_out, worker_restarts>>
    /\ NoPorts
    /\ UNCHANGED <<thread_vars, daemon_vars, deliveries, accepted, started, effects, stop_hit>>
    /\ UNCHANGED sub_vars

\* a caller-supplied fn (the lambdas of test_phase2_job_queue.py): it returns an
\* int, raises an Exception, or raises a BaseException that is not an Exception
StubOutcomes ==
    {[kind |-> "return", rc |-> 0], [kind |-> "raise", rc |-> 0], [kind |-> "fatal", rc |-> 0]}

FnStub ==
    /\ worker_pc = "fn"
    /\ job_name[worker_job] \in QNames
    /\ \E out \in StubOutcomes : worker_out' = out
    /\ worker_pc' = "ret"
    /\ UNCHANGED <<max_size, pending_jobs, running_job, next_job_id, job_name, cancel_event, future,
                   worker_job, worker_restarts>>
    /\ NoPorts
    /\ UNCHANGED <<thread_vars, daemon_vars, hist_vars>>
    /\ UNCHANGED sub_vars

\* lines 159-167: record the result, or the Exception; a BaseException passes the
\* `except Exception` clause and nothing is recorded
RecordOutcome(out) ==
    IF out.kind # "fatal" /\ Future_can_set(future[worker_job])
    THEN /\ deliveries' = [deliveries EXCEPT ![worker_job] = @ + 1]
         /\ future' = [future EXCEPT ![worker_job] =
                         IF out.kind = "return"
                         THEN [st |-> "result", val |-> out.rc]
                         ELSE [st |-> "exception", val |-> 0]]
         /\ worker_out' = out
    ELSE \* nothing recorded; InvalidStateError from set_result is raised
         \* again by set_exception in the handler and leaves the loop
         /\ deliveries' = deliveries
         /\ future' = future
         /\ worker_out' = [kind |-> "fatal", rc |-> 0]

WorkerRecord ==
    /\ worker_pc = "ret"
    /\ worker_pc' = "finally"
    /\ RecordOutcome(worker_out)
    /\ UNCHANGED <<max_size, pending_jobs, running_job, next_job_id, job_name, cancel_event,
                   worker_job, worker_restarts>>
    /\ NoPorts
    /\ UNCHANGED <<thread_vars, daemon_vars, fn_calls, accepted, started, effects, stop_hit>>
    /\ UNCHANGED sub_vars

\* lines 168-171: the finally clause; an exception still in flight ends the thread
WorkerFinally ==
    /\ worker_pc = "finally"
    /\ running_job' = IF running_job = worker_job THEN 0 ELSE running_job
    /\ worker_pc' = IF worker_out.kind = "fatal" THEN "dead" ELSE "wait"
    /\ worker_job' = 0
    /\ worker_out' = [kind |-> "none", rc |-> 0]
    /\ job_name' = IF future[worker_job] = Released THEN [job_name EXCEPT ![worker_job] = ""] ELSE job_name
    /\ UNCHANGED <<max_size, pending_jobs, next_job_id, cancel_event, future, worker_restarts>>
    /\ NoPorts
    /\ UNCHANGED <<thread_vars, daemon_vars, hist_vars>>
    /\ UNCHANGED sub_vars

(* ---- RuntimeJobQueue._monitor_loop ---- *)
\* a supervisor that takes every worker for dead
WorkerAliveNever == FALSE
WorkerAlive == worker_pc # "dead"
\* RuntimeJobQueue.snapshot, lines 88-106 (without the running job's age)
snapshot ==
    [pending |-> Len(pending_jobs),
     running_job_id |-> running_job,
     running_job_name |-> IF running_job # 0 THEN job_name[running_job] ELSE "",
     worker_alive |-> WorkerAlive,
     worker_restarts |-> worker_restarts]

\* lines 181-187: a dead worker is replaced; no job is replayed
MonitorRestart ==
    /\ ~WorkerAlive
    /\ worker_restarts' = worker_restarts + 1
    /\ worker_pc' = "wait"
    /\ UNCHANGED <<max_size, pending_jobs, running_job, next_job_id, job_name, cancel_event, future,
                   worker_job, worker_out>>
    /\ NoPorts
    /\ UNCHANGED <<thread_vars, daemon_vars, hist_vars>>
    /\ UNCHANGED sub_vars

(* ---- callers of the queue (QueueSpec) ---- *)
\* idle threads are interchangeable: a new call is taken by the lowest idle one
LowestIdle(t, S) == pc[t] = "idle" /\ \A u \in S : u < t => pc[u] # "idle"

QSubmitCall(t, name) ==
    /\ LowestIdle(t, Callers)
    /\ AllocJob(next_job_id, name)
    /\ tjob' = [tjob EXCEPT ![t] = next_job_id]
    /\ pc' = [pc EXCEPT ![t] = "q_submit"]
    /\ UNCHANGED <<max_size, pending_jobs, running_job, cancel_event, future,
                   worker_pc, worker_job, worker_out, worker_restarts>>
    /\ UNCHANGED <<req, rc, cancelled_any, tpid, ops, daemon_vars, hist_vars>>
    /\ NoPorts
    /\ UNCHANGED sub_vars

QSubmit(t) ==
    /\ pc[t] = "q_submit"
    /\ SubmitLocked(tjob[t])
    /\ last_ret' = [op |-> "submit", name |-> job_name[tjob[t]], made |-> tjob[t],
                    job |-> SubmitReturn(tjob[t]), hit |-> FALSE]
    /\ pc' = [pc EXCEPT ![t] = "idle"]
    /\ tjob' = [tjob EXCEPT ![t] = 0]
    /\ UNCHANGED <<max_size, running_job, next_job_id, job_name, cancel_event,
                   worker_pc, worker_job, worker_out, worker_restarts>>
    /\ last_tr' = NoTr /\ last_done' = NoDone
    /\ UNCHANGED <<req, rc, cancelled_any, tpid, ops, daemon_vars, fn_calls, deliveries, started, effects, stop_hit>>
    /\ UNCHANGED sub_vars

\* cancel_by_name runs under the lock from its first statement to its last
QCancel(t, name) ==
    /\ LowestIdle(t, Callers)
    /\ CancelLocked(name)
    /\ last_ret' = [op |-> "cancel", name |-> name, made |-> 0, job |-> 0, hit |-> CancelReturn(name)]
    /\ UNCHANGED <<max_size, running_job, next_job_id, job_name,
                   worker_pc, worker_job, worker_out, worker_restarts>>
    /\ last_tr' = NoTr /\ last_done' = NoDone
    /\ UNCHANGED <<thread_vars, daemon_vars, fn_calls, accepted, started, effects, stop_hit>>
    /\ UNCHANGED sub_vars

(* ---- the state the models outside the execution core start in ---- *)
\* no connection is being served
NoConn == [pc |-> "none", wire |-> "", json |-> "", input |-> "", norm |-> "", sent |-> 0, rc |-> 0, ran |-> ""]
ConnInit == conn = NoConn /\ conn_log = <<>>

MaxSessions == 3
Sessions == 1..MaxSessions
\* the directories a descriptor can name that are no session's tmpdir: '<temp>/../etc',
\* '/tmp-evil/...', and the working directory, which is what Path("") denotes
ForeignDirs == {"etc", "tmp-evil", "cwd"}
\* no descriptor file
NoDesc == [form |-> "none", sid |-> 0, tmpdir |-> "", audio |-> "", started |-> ""]
NoLast == [op |-> "", out |-> "", rc |-> 0, found |-> NoDesc, signalled |-> {}, read |-> "", sid |-> 0]
\* a daemon with no hold session, and ffmpeg installed or not
HoldInit ==
    /\ h_desc = NoDesc
    /\ h_procs = [s \in Sessions |-> "none"]
    /\ h_tmpdirs = {}
    /\ h_foreign = ForeignDirs
    /\ h_next = 1
    /\ h_ffmpeg = TRUE
    /\ h_tampers = 0
    /\ h_last = NoLast

MaxVcSessions == 3
VcSessions == 1..MaxVcSessions
NoVcLast == [op |-> "", rc |-> 0, sid |-> 0]
\* a running voice_controls daemon with no session (ACTIVE_SESSION is None, 0 here)
\* and no recovery file
VcInit ==
    /\ vc_up = TRUE
    /\ ACTIVE_SESSION = 0
    /\ recovery_state = 0
    /\ vc_tmpdirs = {}
    /\ vc_procs = [s \in VcSessions |-> "none"]
    /\ vc_next = 1
    /\ vc_last = NoVcLast

\* no pre-roll file, and the bytes of an empty read
NoFile == [exists |-> FALSE, age |-> 0, readable |-> FALSE, len |-> 0, peak |-> 0]
NoBytes == [len |-> 0, peak |-> 0]
NewVad == [speech |-> 0, silence |-> 0, has_started |-> FALSE]
\* no endpointed session has run yet
NoSession ==
    [pc |-> "idle", source |-> "", file |-> NoFile, clock |-> 0, vad |-> NewVad,
     speech_started_at |-> -1, last_speech_at |-> -1, frames |-> 0, preroll |-> NoBytes,
     had_preroll_speech |-> FALSE, rc |-> 0, transcribed |-> FALSE]
EpInit == ep = NoSession

MinConsecutive == 2
CooldownTicks == 3
WakeModels == {"m1", "m2"}
WakeReasons == {"ok", "no_speech", "cancelled", "stale_daemon", "busy_or_error", "rc_other"}
NoWkLast == [op |-> "", now |-> 0, detected |-> "", rc |-> 0, raised |-> FALSE,
             events |-> <<>>, sends |-> 0, spawns |-> 0, since |-> -1, after_rc |-> 0]
\* run_wakeword_daemon lines 248-258: no trigger yet, no streak, the stream running;
\* the clock is far from the epoch that last_trigger_at = 0.0 denotes
WkInit ==
    /\ wk = [pc |-> "run", clock |-> CooldownTicks, last_trigger_at |-> 0, rearm_until |-> 0,
             streak_by_name |-> [m \in WakeModels |-> 0], consecutive |-> [m \in WakeModels |-> 0],
             empty_frame_streak |-> 0, stream |-> "running",
             counts |-> [r \in WakeReasons |-> 0], triggers |-> 0, sent_at |-> -1, sent_rc |-> 0]
    /\ wk_last = NoWkLast
\* no invocation has been made
ClInit ==
    cl = [pc |-> "idle", attempt |-> 0, sends |-> 0, received |-> 0, spawns |-> 0, rc |-> 0,
          variant |-> "", auto_start |-> FALSE, retries |-> 0, last |-> ""]
Starters == {1, 2}
\* no daemon process, no socket file, the lock file unlocked
SuInit ==
    su = [variant |-> "", pc |-> [p \in Starters |-> "off"], lock |-> 0, sock_file |-> 0,
          listening |-> {}]
\* no daemon process yet
SdInit ==
    sd = [variant |-> "", pc |-> "off", shutdown |-> FALSE, listener |-> "none",
          sock_file |-> FALSE, session |-> FALSE, recorder |-> "none", busy |-> 0,
          signals |-> 0, served |-> 0]
\* no EndpointVAD has been constructed
VdInit ==
    vd = [pc |-> "new", frame_ms |-> 0, rms_threshold |-> 0, min_speech_ms |-> 0,
          end_silence_ms |-> 0, speech_ms |-> 0, silence_ms |-> 0, has_started |-> FALSE,
          fed |-> <<>>, ret |-> [has_started |-> FALSE, endpoint |-> FALSE, rms |-> 0], op |-> ""]
\* the connection pool (controller.py) and the requests it may be handed
PoolSize == 3
PoolQueueMax == 2
MaxPoolRequests == 4
PoolWorkers == 1..PoolSize
PoolJobs == 1..MaxPoolRequests
PoolModes == {"voice", "command-auto", "command-stop"}
PoolIdle == [pc |-> "idle", mode |-> "", job |-> 0]
NoPoolOp == [op |-> "", job |-> 0, flag |-> FALSE]
\* the executor is created, no connection has been accepted, the queue is empty
PlInit ==
    pl = [backlog |-> <<>>, w |-> [i \in PoolWorkers |-> PoolIdle],
          pending |-> <<>>, running |-> 0,
          name |-> [j \in PoolJobs |-> ""], flag |-> [j \in PoolJobs |-> FALSE],
          fut |-> [j \in PoolJobs |-> "none"], next_job |-> 1, accepted |-> 0,
          last |-> NoPoolOp]

\* the wake word flag file (WAKEWORD_STATE_PATH) and the pool threads handling
\* wakeword-enable, wakeword-disable and wakeword-toggle
MaxToggles == 3
MaxSets == 2
TgThreads == 1..2
WAKEWORD_ENABLED_DEFAULT == FALSE
\* no flag file has been written, no request is being handled
TgInit ==
    tg = [file |-> [exists |-> FALSE, enabled |-> FALSE],
          t |-> [i \in TgThreads |-> [pc |-> "idle", enabled |-> FALSE]],
          base |-> WAKEWORD_ENABLED_DEFAULT, toggles |-> 0, begun |-> 0, sets |-> 0]
LateInit == ClInit /\ SuInit /\ SdInit /\ VdInit /\ PlInit /\ TgInit
MoreInit == EpInit /\ WkInit /\ LateInit
SubInit == ConnInit /\ HoldInit /\ VcInit /\ MoreInit

QueueInit(size) ==
    /\ max_size = size
    /\ pending_jobs = <<>>
    /\ running_job = 0
    /\ next_job_id = 1
    /\ job_name = [j \in JobIds |-> ""]
    /\ cancel_event = [j \in JobIds |-> FALSE]
    /\ future = [j \in JobIds |-> NoFuture]
    /\ worker_pc = "wait"
    /\ worker_job = 0
    /\ worker_out = [kind |-> "none", rc |-> 0]
    /\ worker_restarts = 0
    /\ fn_calls = [j \in JobIds |-> 0]
    /\ deliveries = [j \in JobIds |-> 0]
    /\ accepted = <<>>
    /\ started = <<>>
    /\ effects = [j \in JobIds |-> {}]
    /\ stop_hit = [j \in JobIds |-> ""]
    /\ fn_phase = "none"
    /\ fn_pid = 0

ThreadInit ==
    /\ pc = [t \in Threads |-> "idle"]
    /\ req = [t \in Threads |-> ""]
    /\ tjob = [t \in Threads |-> 0]
    /\ rc = [t \in Threads |-> 0]
    /\ cancelled_any = [t \in Threads |-> FALSE]
    /\ tpid = [t \in Threads |-> 0]
    /\ ops = [t \in Threads |-> <<>>]
    /\ last_ret = NoRet
    /\ last_tr = NoTr
    /\ last_done = NoDone

\* RuntimeStateMachine.__init__ and a daemon that owns no hold session yet
DaemonInit ==
    /\ machine_state = STATE_IDLE
    /\ state_file = [k \in HoldKinds |-> 0]
    /\ procs = {}
    /\ next_pid = 1
    /\ n_requests = 0

QInit == QueueInit(TestMaxSize) /\ ThreadInit /\ DaemonInit /\ SubInit

Worker == WorkerTake \/ WorkerTry \/ FnStub \/ WorkerRecord \/ WorkerFinally

QNext ==
    \/ Worker
    \/ MonitorRestart
    \/ \E t \in Callers, name \in QNames : QSubmitCall(t, name)
    \/ \E t \in Callers : QSubmit(t)
    \/ \E t \in Callers, name \in QNames : QCancel(t, name)

QueueSpec == QInit /\ [][QNext]_vars

\* the worker and the supervisor are threads of their own: each runs when it can
QueueFairSpec == QueueSpec /\ WF_vars(Worker) /\ WF_vars(MonitorRestart)

(* ---- RuntimeStateMachine (runtime/state_machine.py) ---- *)
Allowed(next) == [allowed |-> TRUE, next_state |-> next, reason |-> ""]
Refused(state, why) == [allowed |-> FALSE, next_state |-> state, reason |-> why]

\* a table in which a stop with nothing held is refused
resolve_transition_strict_stop(state, action) ==
    IF action \in {"command-stop", "dictate-stop"} /\ state = STATE_IDLE
    THEN Refused(state, "invalid_transition")
    ELSE IF action = "command-start" /\ state \in {STATE_IDLE, STATE_COMMAND_HOLD} THEN Allowed(STATE_COMMAND_HOLD)
    ELSE IF action = "dictate-start" /\ state \in {STATE_IDLE, STATE_DICTATE_HOLD} THEN Allowed(STATE_DICTATE_HOLD)
    ELSE IF action = "command-stop" /\ state = STATE_COMMAND_HOLD THEN Allowed(STATE_TRANSCRIBING)
    ELSE IF action = "dictate-stop" /\ state = STATE_DICTATE_HOLD THEN Allowed(STATE_TRANSCRIBING)
    ELSE IF action = "wake-start" /\ state = STATE_IDLE THEN Allowed(STATE_WAKE_SESSION)
    ELSE IF action \in {"command-start-failed", "dictate-start-failed"} THEN Allowed(STATE_IDLE)
    ELSE IF action \in {"command-stop-complete", "dictate-stop-complete"} /\ state = STATE_TRANSCRIBING THEN Allowed(STATE_IDLE)
    ELSE IF action \in {"wake-complete", "wake-failed"} /\ state = STATE_WAKE_SESSION THEN Allowed(STATE_IDLE)
    ELSE Refused(state, "invalid_transition")

\* a table in which a stop with nothing held enters Transcribing
resolve_transition_idle_stop_transcribes(state, action) ==
    IF action \in {"command-stop", "dictate-stop"} /\ state = STATE_IDLE
    THEN Allowed(STATE_TRANSCRIBING)
    ELSE resolve_transition_strict_stop(state, action)

\* _resolve_transition, branch by branch
resolve_transition(state, action) ==
    IF action = "command-start"
    THEN IF state \in {STATE_IDLE, STATE_COMMAND_HOLD}
         THEN Allowed(STATE_COMMAND_HOLD) ELSE Refused(state, "runtime_busy")
    ELSE IF action = "command-stop"
    THEN IF state = STATE_COMMAND_HOLD THEN Allowed(STATE_TRANSCRIBING)
         ELSE IF state = STATE_IDLE THEN Allowed(STATE_IDLE)
         ELSE Refused(state, "invalid_transition")
    ELSE IF action \in {"command-stop-complete", "command-start-failed"}
    THEN IF state = STATE_TRANSCRIBING \/ action = "command-start-failed"
         THEN Allowed(STATE_IDLE) ELSE Refused(state, "invalid_transition")
    ELSE IF action = "dictate-start"
    THEN IF state \in {STATE_IDLE, STATE_DICTATE_HOLD}
         THEN Allowed(STATE_DICTATE_HOLD) ELSE Refused(state, "runtime_busy")
    ELSE IF action = "dictate-stop"
    THEN IF state = STATE_DICTATE_HOLD THEN Allowed(STATE_TRANSCRIBING)
         ELSE IF state = STATE_IDLE THEN Allowed(STATE_IDLE)
         ELSE Refused(state, "invalid_transition")
    ELSE IF action \in {"dictate-stop-complete", "dictate-start-failed"}
    THEN IF state = STATE_TRANSCRIBING \/ action = "dictate-start-failed"
         THEN Allowed(STATE_IDLE) ELSE Refused(state, "invalid_transition")
    ELSE IF action = "wake-start"
    THEN IF state = STATE_IDLE THEN Allowed(STATE_WAKE_SESSION) ELSE Refused(state, "runtime_busy")
    ELSE IF action \in {"wake-complete", "wake-failed"}
    THEN IF state = STATE_WAKE_SESSION THEN Allowed(STATE_IDLE) ELSE Refused(state, "invalid_transition")
    ELSE Refused(state, "unknown_action")

TransitionAllowed(action) == resolve_transition(machine_state, action).allowed

\* RuntimeStateMachine.transition, under the machine's lock
Transition(action) ==
    LET r == resolve_transition(machine_state, action)
        next == IF r.allowed THEN r.next_state ELSE machine_state
    IN /\ machine_state' = next
       /\ last_tr' = [action |-> action, previous_state |-> machine_state, next_state |-> next,
                      allowed |-> r.allowed, reason |-> r.reason]

(* ---- requests and their handlers (app.py) ---- *)
StartModes == {"dictate-start", "command-start"}
StopModes == {"dictate-stop", "command-stop"}
\* RUNTIME_V2_QUEUED_INPUT_MODES
QueuedModes == {"voice", "dictate", "dictate-stop", "command-stop", "command-auto", "wake-start"}
InputModes == StartModes \cup QueuedModes

HoldKindOf(mode) == IF mode \in {"dictate-start", "dictate-stop"} THEN "dictate" ELSE "command"

\* handle_input: where each input mode starts
FirstPc(mode) ==
    IF mode \in StartModes THEN "start_trans"
    ELSE IF mode \in StopModes THEN "s_cancel1"
    ELSE IF mode = "wake-start" THEN "w_trans"
    ELSE "q_submit"

Op(op, arg) == [op |-> op, arg |-> arg, hit |-> ""]

\* the request returns `code`: the thread goes back to the pool
Finish(t, mode, code, log) ==
    /\ pc' = [pc EXCEPT ![t] = "idle"]
    /\ req' = [req EXCEPT ![t] = ""]
    /\ tjob' = [tjob EXCEPT ![t] = 0]
    /\ rc' = [rc EXCEPT ![t] = 0]
    /\ cancelled_any' = [cancelled_any EXCEPT ![t] = FALSE]
    /\ tpid' = [tpid EXCEPT ![t] = 0]
    /\ ops' = [ops EXCEPT ![t] = <<>>]
    /\ last_done' = [req |-> mode, rc |-> code, ops |-> log, job |-> tjob[t],
                     did |-> IF tjob[t] = 0 THEN {} ELSE effects[tjob[t]],
                     hit |-> IF tjob[t] = 0 THEN "" ELSE stop_hit[tjob[t]]]

Goto(t, mode, next, log) ==
    /\ pc' = [pc EXCEPT ![t] = next]
    /\ req' = [req EXCEPT ![t] = mode]
    /\ ops' = [ops EXCEPT ![t] = log]
    /\ last_done' = NoDone

\* serve_with_thread_pool hands a connection to a pool thread, which reads the
\* request and enters the handler of its input mode
Arrives(t) == LowestIdle(t, Threads) /\ n_requests < MaxRequests
\* thread t is at `at` in the handler of `mode`, or takes a new `mode` request
\* whose handler begins at `at`
AtOrArrives(t, mode, at) ==
    \/ pc[t] = at /\ req[t] = mode /\ n_requests' = n_requests
    \/ Arrives(t) /\ FirstPc(mode) = at /\ n_requests' = n_requests + 1
LogOf(t) == IF pc[t] = "idle" THEN <<>> ELSE ops[t]

(* ---- hold sessions ---- *)
\* is_capture_state_active_payload: the descriptor is fresh and its pid is a live recorder
RecorderActive(pid, stale) == pid > 0 /\ ~stale /\ pid \in procs
\* _stop_press_hold_recorder: an inactive recorder is not signalled
StopRecorder(pid, stale) == procs' = IF RecorderActive(pid, stale) THEN procs \ {pid} ELSE procs

\* _run_dictate_start_v2 / _run_command_start_v2: the admission transition
StartTrans(t, mode) ==
    /\ AtOrArrives(t, mode, "start_trans")
    /\ Transition(mode)
    /\ IF TransitionAllowed(mode)
       THEN /\ Goto(t, mode, "start_exists", Append(LogOf(t), Op("transition", mode)))
            /\ UNCHANGED <<tjob, rc, cancelled_any, tpid>>
       ELSE Finish(t, mode, 1, Append(LogOf(t), Op("rejected", mode)))
    /\ last_ret' = NoRet
    /\ UNCHANGED <<queue_vars, state_file, procs, next_pid, fn_phase, fn_pid, hist_vars>>
    /\ UNCHANGED sub_vars

\* _start_press_hold_session line 446, and the preempting stop's load of the descriptor
StartExists(t) ==
    /\ pc[t] = "start_exists"
    /\ LET pid == state_file[HoldKindOf(req[t])] IN
       IF pid # 0
       THEN /\ tpid' = [tpid EXCEPT ![t] = pid]
            /\ Goto(t, req[t], "pre_stop", ops[t])
       ELSE /\ tpid' = tpid
            /\ Goto(t, req[t], "start_popen", ops[t])
    /\ NoPortsBut
    /\ UNCHANGED <<queue_vars, tjob, rc, cancelled_any, daemon_vars, hist_vars>>
    /\ UNCHANGED sub_vars

\* preempt_fn: _stop_press_hold_session on the connection thread, the recorder stop
PreStop(t) ==
    /\ pc[t] = "pre_stop"
    /\ \E stale \in BOOLEAN : StopRecorder(tpid[t], stale)
    /\ Goto(t, req[t], "pre_clean", ops[t])
    /\ NoPortsBut
    /\ UNCHANGED <<queue_vars, tjob, rc, cancelled_any, tpid, hist_vars>>
    /\ UNCHANGED <<machine_state, state_file, next_pid, n_requests, fn_phase, fn_pid>>
    /\ UNCHANGED sub_vars

\* preempt_fn: transcription of the old recording and the finally clause (lines 512-525)
PreClean(t) ==
    /\ pc[t] = "pre_clean"
    /\ state_file' = [state_file EXCEPT ![HoldKindOf(req[t])] = 0]
    /\ tpid' = [tpid EXCEPT ![t] = 0]
    /\ Goto(t, req[t], "start_popen", ops[t])
    /\ NoPortsBut
    /\ UNCHANGED <<queue_vars, tjob, rc, cancelled_any, hist_vars>>
    /\ UNCHANGED <<machine_state, procs, next_pid, n_requests, fn_phase, fn_pid>>
    /\ UNCHANGED sub_vars

\* subprocess.Popen: the recorder starts, ffmpeg is missing, or another OSError
PopenOutcomes == {"started", "not_found", "os_error"}

\* _start_press_hold_session lines 450-464
StartPopen(t) ==
    /\ pc[t] = "start_popen"
    /\ \E out \in PopenOutcomes :
        IF out = "started"
        THEN /\ next_pid <= MaxRequests
             /\ procs' = procs \cup {next_pid}
             /\ next_pid' = next_pid + 1
             /\ tpid' = [tpid EXCEPT ![t] = next_pid]
             /\ Goto(t, req[t], "start_write", ops[t])
             /\ UNCHANGED <<tjob, rc, cancelled_any>>
        ELSE IF out = "not_found"
        THEN /\ rc' = [rc EXCEPT ![t] = 1]
             /\ Goto(t, req[t], "start_failed", ops[t])
             /\ UNCHANGED <<procs, next_pid, tjob, cancelled_any, tpid>>
        ELSE \* the exception leaves the handler; _execute_daemon_request answers rc 1
             /\ Finish(t, req[t], 1, Append(ops[t], Op("raised", "OSError")))
             /\ UNCHANGED <<procs, next_pid>>
    /\ last_ret' = NoRet /\ last_tr' = NoTr
    /\ UNCHANGED <<queue_vars, hist_vars, machine_state, state_file, n_requests, fn_phase, fn_pid>>
    /\ UNCHANGED sub_vars

\* _start_press_hold_session lines 466-477: the descriptor is written
StartWrite(t) ==
    /\ pc[t] = "start_write"
    /\ state_file' = [state_file EXCEPT ![HoldKindOf(req[t])] = tpid[t]]
    /\ Finish(t, req[t], 0, ops[t])
    /\ last_ret' = NoRet /\ last_tr' = NoTr
    /\ UNCHANGED <<queue_vars, hist_vars, machine_state, procs, next_pid, n_requests, fn_phase, fn_pid>>
    /\ UNCHANGED sub_vars

StartFailedAction(mode) == IF mode = "dictate-start" THEN "dictate-start-failed" ELSE "command-start-failed"

\* _run_dictate_start_v2 / _run_command_start_v2: rc != 0
StartFailed(t) ==
    /\ pc[t] = "start_failed"
    /\ Transition(StartFailedAction(req[t]))
    /\ Finish(t, req[t], rc[t], Append(ops[t], Op("failed", StartFailedAction(req[t]))))
    /\ last_ret' = NoRet
    /\ UNCHANGED <<queue_vars, hist_vars, state_file, procs, next_pid, n_requests, fn_phase, fn_pid>>
    /\ UNCHANGED sub_vars

(* ---- cancellation and the stop handlers ---- *)
\* the order reversed
CancelNamesReversed == <<"wake-start", "command-auto">>
\* _cancel_v2_long_running_jobs line 1057
CancelNames == <<"command-auto", "wake-start">>

\* the worker has not left the capture of the running job
StillCapturing == worker_pc \in {"try", "fn"} /\ fn_phase \in {"none", "capture"}

\* what cancel_by_name(name) finds: nothing, pending jobs only, or the running job,
\* still in its capture or past it
CancelHow(name) ==
    IF ~CancelReturn(name) THEN "miss"
    ELSE IF running_job = 0 \/ job_name[running_job] # name THEN "pending"
    ELSE IF StillCapturing THEN "capturing"
    ELSE "late"
CancelOp(name) == [op |-> "cancel", arg |-> name, hit |-> CancelHow(name)]

\* one iteration of the loop of _cancel_v2_long_running_jobs
StopCancel(t, mode, i, hitBefore) ==
    LET name == CancelNames[i] IN
    /\ CancelLocked(name)
    /\ cancelled_any' = [cancelled_any EXCEPT ![t] = hitBefore \/ CancelReturn(name)]
    /\ last_ret' = NoRet
    /\ stop_hit' = IF /\ mode = "command-stop" /\ name = "command-auto"
                      /\ CancelHow(name) \in {"capturing", "late"}
                      /\ stop_hit[running_job] # "capturing"
                   THEN [stop_hit EXCEPT ![running_job] = CancelHow(name)] ELSE stop_hit
    /\ last_tr' = NoTr
    /\ UNCHANGED <<max_size, running_job, next_job_id, job_name, worker_pc, worker_job, worker_out, worker_restarts>>
    /\ UNCHANGED <<tjob, rc, tpid, fn_calls, accepted, started, effects>>
    /\ UNCHANGED <<machine_state, state_file, procs, next_pid, fn_phase, fn_pid>>
    /\ UNCHANGED sub_vars

StopCancel1(t, mode) ==
    /\ AtOrArrives(t, mode, "s_cancel1")
    /\ StopCancel(t, mode, 1, FALSE)
    /\ Goto(t, mode, "s_cancel2", Append(LogOf(t), CancelOp(CancelNames[1])))

StopCancel2(t) ==
    /\ pc[t] = "s_cancel2"
    /\ n_requests' = n_requests
    /\ StopCancel(t, req[t], 2, cancelled_any[t])
    /\ Goto(t, req[t], "s_check", Append(ops[t], CancelOp(CancelNames[2])))

\* a stop that returns early when the descriptor does exist
StopReturnsEarlyWhenPresent(cancelled, exists) == cancelled /\ exists
\* _run_dictate_stop_v2 line 1100 / _run_command_stop_v2 line 1139
StopReturnsEarly(cancelled, exists) == cancelled /\ ~exists

StopCheck(t) ==
    /\ pc[t] = "s_check"
    /\ LET exists == state_file[HoldKindOf(req[t])] # 0
           seen == Op("check", IF exists THEN "present" ELSE "absent")
       IN IF StopReturnsEarly(cancelled_any[t], exists)
          THEN Finish(t, req[t], 0, Append(ops[t], seen))
          ELSE /\ Goto(t, req[t], "s_trans", Append(ops[t], seen))
               /\ UNCHANGED <<tjob, rc, cancelled_any, tpid>>
    /\ NoPortsBut
    /\ UNCHANGED <<queue_vars, daemon_vars, hist_vars>>
    /\ UNCHANGED sub_vars

\* the admission transition of a queued handler; rc = 1 before the try block.
\* _log_runtime_transition records the state the request was admitted from
AdmitQueued(t, mode) ==
    /\ Transition(mode)
    /\ IF TransitionAllowed(mode)
       THEN /\ rc' = [rc EXCEPT ![t] = 1]
            /\ Goto(t, mode, "q_submit",
                    Append(LogOf(t), [Op("transition", mode) EXCEPT !.hit = machine_state]))
            /\ UNCHANGED <<tjob, cancelled_any, tpid>>
       ELSE Finish(t, mode, 1, Append(LogOf(t), Op("rejected", mode)))
    /\ last_ret' = NoRet
    /\ UNCHANGED <<queue_vars, state_file, procs, next_pid, fn_phase, fn_pid, hist_vars>>
    /\ UNCHANGED sub_vars

\* _run_dictate_stop_v2 lines 1103-1106 / _run_command_stop_v2 lines 1142-1145
StopTrans(t) == pc[t] = "s_trans" /\ n_requests' = n_requests /\ AdmitQueued(t, req[t])

\* _run_wake_start_v2 lines 903-906
WakeTrans(t) == AtOrArrives(t, "wake-start", "w_trans") /\ AdmitQueued(t, "wake-start")

(* ---- _run_v2_queued_call ---- *)
\* a wake-start handler without its finally clause
HasFinallyStopsOnly(mode) == mode \in StopModes
\* the handlers whose queued call sits in try/finally with a completion transition
HasFinally(mode) == mode \in StopModes \cup {"wake-start"}

\* a queued call that reports a job that raised as a cancelled one
QueuedCallRcRaisedAsCancelled(f) ==
    IF f.st = "result" THEN f.val ELSE CANCELLED_EXIT_CODE

\* lines 1045-1052: the rc the queued call returns for a finished future
QueuedCallRc(f) ==
    IF f.st = "result" THEN f.val
    ELSE IF f.st = "cancelled" THEN CANCELLED_EXIT_CODE
    ELSE 1

\* the handler returns and drops its reference to the job (t submitted none: nothing)
Release(t) ==
    LET j == tjob[t] IN
    /\ future' = IF j = 0 THEN future ELSE [future EXCEPT ![j] = Released]
    /\ cancel_event' = IF j = 0 THEN cancel_event ELSE [cancel_event EXCEPT ![j] = FALSE]
    /\ effects' = IF j = 0 THEN effects ELSE [effects EXCEPT ![j] = {}]
    /\ stop_hit' = IF j = 0 THEN stop_hit ELSE [stop_hit EXCEPT ![j] = ""]
    /\ job_name' = IF j # 0 /\ worker_job # j THEN [job_name EXCEPT ![j] = ""] ELSE job_name
    /\ fn_calls' = IF j = 0 THEN fn_calls ELSE [fn_calls EXCEPT ![j] = 0]
    /\ deliveries' = IF j = 0 THEN deliveries ELSE [deliveries EXCEPT ![j] = 0]
    /\ accepted' = SelectSeq(accepted, LAMBDA x : x # j)
    /\ started' = SelectSeq(started, LAMBDA x : x # j)
QueueRest == <<max_size, pending_jobs, running_job, next_job_id, worker_pc, worker_job, worker_out, worker_restarts>>

\* lines 1038-1043: RUNTIME_EXECUTION_QUEUE.submit, and "Voice busy" when it is full
Submit(t, mode) ==
    /\ AtOrArrives(t, mode, "q_submit")
    /\ AllocJob(next_job_id, IF QueueFull THEN "" ELSE mode)
    /\ SubmitLocked(next_job_id)
    /\ last_ret' = NoRet
    /\ IF ~QueueFull
       THEN /\ tjob' = [tjob EXCEPT ![t] = next_job_id]
            /\ Goto(t, mode, "q_wait", Append(LogOf(t), Op("submit", "queued")))
            /\ UNCHANGED <<rc, cancelled_any, tpid>>
       ELSE IF HasFinally(mode)
       THEN /\ Goto(t, mode, "finally", Append(LogOf(t), Op("submit", "full")))
            /\ UNCHANGED <<tjob, rc, cancelled_any, tpid>>
       ELSE Finish(t, mode, 1, Append(LogOf(t), Op("submit", "full")))
    /\ last_tr' = NoTr
    /\ UNCHANGED <<max_size, running_job, cancel_event, worker_pc, worker_job, worker_out, worker_restarts>>
    /\ UNCHANGED <<fn_calls, deliveries, started, effects, stop_hit>>
    /\ UNCHANGED <<machine_state, state_file, procs, next_pid, fn_phase, fn_pid>>
    /\ UNCHANGED sub_vars

\* line 1046 in a handler without a finally clause: future.result() returns or
\* raises once the future is done, and the handler returns the rc
Wait(t) ==
    /\ pc[t] = "q_wait" /\ ~HasFinally(req[t])
    /\ FutureDone(future[tjob[t]])
    /\ Finish(t, req[t], QueuedCallRc(future[tjob[t]]), ops[t])
    /\ Release(t)
    /\ NoPortsBut
    /\ UNCHANGED <<QueueRest, daemon_vars>>
    /\ UNCHANGED sub_vars

\* the action of the finally clause
CompletionAction(mode, code) ==
    IF mode = "wake-start" THEN (IF code = 0 THEN "wake-complete" ELSE "wake-failed")
    ELSE IF mode = "dictate-stop" THEN "dictate-stop-complete"
    ELSE "command-stop-complete"

\* the rc the try block leaves: that of the queued call
TryRc(t) == IF pc[t] = "q_wait" THEN QueuedCallRc(future[tjob[t]]) ELSE rc[t]

\* the finally clause of _run_wake_start_v2, _run_dictate_stop_v2 and
\* _run_command_stop_v2, entered when the queued call has returned
Complete(t) ==
    /\ \/ pc[t] = "finally"
       \/ pc[t] = "q_wait" /\ HasFinally(req[t]) /\ FutureDone(future[tjob[t]])
    /\ Transition(CompletionAction(req[t], TryRc(t)))
    /\ Finish(t, req[t], TryRc(t), Append(ops[t], Op("complete", CompletionAction(req[t], TryRc(t)))))
    /\ Release(t)
    /\ last_ret' = NoRet
    /\ UNCHANGED <<QueueRest, state_file, procs, next_pid, n_requests, fn_phase, fn_pid>>
    /\ UNCHANGED sub_vars

(* ---- the jobs' fn, run by the worker ---- *)
EndpointedModes == {"command-auto", "wake-start"}
ClipModes == {"dictate", "voice"}

\* the fn returns or raises, and lines 160-167 record the outcome
FnReturn(kind, code) ==
    /\ RecordOutcome([kind |-> kind, rc |-> code])
    /\ worker_pc' = "finally"
    /\ fn_phase' = "none"
    /\ fn_pid' = 0
FnGoes(phase) ==
    /\ fn_phase' = phase
    /\ UNCHANGED <<worker_pc, worker_out, future, deliveries>>

FnFrame ==
    /\ NoPorts
    /\ UNCHANGED <<max_size, pending_jobs, running_job, next_job_id, job_name, cancel_event,
                   worker_job, worker_restarts>>
    /\ UNCHANGED <<thread_vars, machine_state, next_pid, n_requests>>
    /\ UNCHANGED <<fn_calls, accepted, started, stop_hit>>
    /\ UNCHANGED sub_vars

\* the fn begins: _run_wake_start lines 865-867 (wake word disabled), the start of
\* a capture, or _stop_press_hold_session lines 484-498
FnStart ==
    /\ worker_pc = "fn" /\ fn_phase = "none"
    /\ job_name[worker_job] \in QueuedModes
    /\ LET name == job_name[worker_job] IN
       IF name = "wake-start"
       THEN \E enabled \in BOOLEAN :
              IF enabled
              THEN /\ FnGoes("capture")
                   /\ fn_pid' = fn_pid
              ELSE FnReturn("return", 0)
       ELSE IF name = "command-auto"
       THEN /\ FnGoes("capture")
            /\ fn_pid' = fn_pid
       ELSE IF name \in ClipModes
       THEN /\ FnGoes("clip")
            /\ fn_pid' = fn_pid
       ELSE IF state_file[HoldKindOf(name)] = 0
       THEN FnReturn("return", 0)
       ELSE /\ FnGoes("hold")
            /\ fn_pid' = state_file[HoldKindOf(name)]
    /\ UNCHANGED <<state_file, procs, effects>>
    /\ FnFrame

\* run_endpointed_command_session with cancel_event: the capture ends; a set cancel
\* flag gives CANCELLED_EXIT_CODE, else no speech gives NO_SPEECH_EXIT_CODE
FnCaptureEnd ==
    /\ worker_pc = "fn" /\ fn_phase = "capture"
    /\ IF cancel_event[worker_job]
       THEN /\ FnReturn("return", CANCELLED_EXIT_CODE)
            /\ effects' = effects
       ELSE \E speech \in BOOLEAN :
              IF speech
              THEN /\ FnGoes("post")
                   /\ UNCHANGED <<fn_pid, effects>>
              ELSE /\ FnReturn("return", NO_SPEECH_EXIT_CODE)
                   /\ effects' = [effects EXCEPT ![worker_job] = @ \cup {"no_speech"}]
    /\ UNCHANGED <<state_file, procs>>
    /\ FnFrame

\* record_clip: the fixed-length recording ends, well or not
FnClipEnd ==
    /\ worker_pc = "fn" /\ fn_phase = "clip"
    /\ \E ok \in BOOLEAN :
         IF ok
         THEN /\ FnGoes("post")
              /\ fn_pid' = fn_pid
         ELSE FnReturn("return", 1)
    /\ UNCHANGED <<state_file, procs, effects>>
    /\ FnFrame

\* _stop_press_hold_session lines 500-510 on the worker
FnHoldStop ==
    /\ worker_pc = "fn" /\ fn_phase = "hold"
    /\ \E stale \in BOOLEAN : StopRecorder(fn_pid, stale)
    /\ FnGoes("post")
    /\ UNCHANGED <<fn_pid, state_file, effects>>
    /\ FnFrame

\* transcription and the handler: handled with rc 0, transcription failed with
\* rc 1, or the handler raised
ProcessOutcomes ==
    {[kind |-> "return", rc |-> 0, did |-> {"transcribed", "handled"}],
     [kind |-> "return", rc |-> 1, did |-> {"transcribed"}],
     [kind |-> "raise", rc |-> 0, did |-> {"transcribed", "handled"}]}

\* _transcribe_and_dispatch, and for a hold stop the finally clause (lines 512-525)
FnProcess ==
    /\ worker_pc = "fn" /\ fn_phase = "post"
    /\ \E out \in ProcessOutcomes :
         /\ FnReturn(out.kind, out.rc)
         /\ effects' = [effects EXCEPT ![worker_job] = @ \cup out.did]
    /\ state_file' = IF job_name[worker_job] \in StopModes
                     THEN [state_file EXCEPT ![HoldKindOf(job_name[worker_job])] = 0]
                     ELSE state_file
    /\ UNCHANGED procs
    /\ FnFrame

(* ---- the daemon ---- *)
Init == QueueInit(DaemonMaxSize) /\ ThreadInit /\ DaemonInit /\ SubInit

DaemonWorker ==
    \/ WorkerTake \/ WorkerTry \/ WorkerFinally
    \/ FnStart \/ FnCaptureEnd \/ FnClipEnd \/ FnHoldStop \/ FnProcess

Next ==
    \/ DaemonWorker
    \/ \E t \in Threads, mode \in StartModes : StartTrans(t, mode)
    \/ \E t \in Threads : StartExists(t)
    \/ \E t \in Threads : PreStop(t)
    \/ \E t \in Threads : PreClean(t)
    \/ \E t \in Threads : StartPopen(t)
    \/ \E t \in Threads : StartWrite(t)
    \/ \E t \in Threads : StartFailed(t)
    \/ \E t \in Threads, mode \in StopModes : StopCancel1(t, mode)
    \/ \E t \in Threads : StopCancel2(t)
    \/ \E t \in Threads : StopCheck(t)
    \/ \E t \in Threads : StopTrans(t)
    \/ \E t \in Threads : WakeTrans(t)
    \/ \E t \in Threads, mode \in QueuedModes : Submit(t, mode)
    \/ \E t \in Threads : Wait(t)
    \/ \E t \in Threads : Complete(t)

Spec == Init /\ [][Next]_vars

\* the steps that continue a request already taken
Handlers ==
    \E t \in Threads :
        \/ pc[t] # "idle" /\ (\E mode \in InputModes : StartTrans(t, mode) \/ StopCancel1(t, mode) \/ Submit(t, mode))
        \/ pc[t] # "idle" /\ WakeTrans(t)
        \/ StartExists(t) \/ PreStop(t) \/ PreClean(t) \/ StartPopen(t)
        \/ StartWrite(t) \/ StartFailed(t) \/ StopCancel2(t)
        \/ StopCheck(t) \/ StopTrans(t) \/ Wait(t) \/ Complete(t)
\* every thread of the daemon runs when it can; requests arrive when they arrive
FairSpec == Spec /\ WF_vars(DaemonWorker) /\ WF_vars(Handlers)

(* ---- one connection: _handle_daemon_connection under _safe_handle_connection ---- *)
MaxConns == 2

ALLOWED_INPUT_MODES ==
    {"voice", "dictate", "dictate-start", "dictate-stop", "command-start", "command-stop",
     "command-auto", "wake-start", "wakeword-enable", "wakeword-disable", "wakeword-toggle",
     "wakeword-status", "runtime-status", "runtime-status-json"}
\* LEGACY_INPUT_ALIASES.get(x, x)
LEGACY_INPUT_ALIASES(x) == IF x = "text" THEN "dictate" ELSE x

\* what a client puts on the wire: nothing in time, an empty line, too many bytes,
\* bytes that are not UTF-8, text that is not JSON, or a JSON value
WireKinds == {"timeout", "empty", "oversize", "bad_utf8", "bad_json", "json"}
JsonKinds == {"null", "number", "string", "array", "object"}
\* the "input" member of a JSON object: absent, a value that is not a string
\* (written #type), or a string
NonStrings == {"#null", "#number", "#array", "#object"}
InputStrings == {"voice", "text", "dictate-start", "runtime-status-json", "bogus"}
InputValues == {"absent"} \cup NonStrings \cup InputStrings
WireRequests ==
    {[wire |-> w, json |-> "", input |-> ""] : w \in WireKinds \ {"json"}}
    \cup {[wire |-> "json", json |-> j, input |-> ""] : j \in JsonKinds \ {"object"}}
    \cup {[wire |-> "json", json |-> "object", input |-> v] : v \in InputValues}

\* _recv_json_line: the exception it raises, or "ok" when json.loads returned
recv_json_line(w) ==
    IF w \in {"empty", "oversize"} THEN "ValueError"
    ELSE IF w = "timeout" THEN "socket.timeout"
    ELSE IF w = "bad_utf8" THEN "UnicodeDecodeError"
    ELSE IF w = "bad_json" THEN "JSONDecodeError"
    ELSE "ok"
\* the exceptions _parse_daemon_request turns into None
ParseCaught == {"socket.timeout", "UnicodeDecodeError", "JSONDecodeError", "ValueError", "OSError"}
\* _parse_daemon_request returns None: a caught exception, or the JSON value null
ParsedNone(c) == recv_json_line(c.wire) \in ParseCaught \/ c.json = "null"

\* request.get("input", "voice"); only a dict has .get
HasGet(c) == c.json = "object"
GetInput(c) == IF c.input = "absent" THEN "voice" ELSE c.input
\* dict.get(key) hashes its key: a list or a dict raises TypeError
Hashable(v) == v \notin {"#array", "#object"}
\* str(value) as line 1399 applies it before normalising again
Str(v) ==
    IF v = "#null" THEN "None" ELSE IF v = "#number" THEN "7"
    ELSE IF v = "#array" THEN "[]" ELSE IF v = "#object" THEN "{}" ELSE v
\* _normalize_input_mode of a hashable value
normalize_input_mode(v) == LEGACY_INPUT_ALIASES(v)

\* handle_input returns an rc or raises
HandlerOutcomes == {[kind |-> "return", rc |-> 0], [kind |-> "return", rc |-> 1], [kind |-> "raise", rc |-> 0]}

ConnFrame == UNCHANGED <<core_vars, hold_vars, vc_vars, more_vars>>

\* serve_with_thread_pool lines 47-54: accept, and hand the connection to a worker
ConnAccept(w) ==
    /\ conn.pc = "none" /\ Len(conn_log) < MaxConns
    /\ conn' = [NoConn EXCEPT !.pc = "parse", !.wire = w.wire, !.json = w.json, !.input = w.input]
    /\ UNCHANGED conn_log
    /\ ConnFrame

\* lines 1393-1396: parse the request; None is answered rc 1
ConnParse ==
    /\ conn.pc = "parse"
    /\ conn' = IF ParsedNone(conn)
               THEN [conn EXCEPT !.pc = "close", !.rc = 1, !.sent = @ + 1]
               ELSE [conn EXCEPT !.pc = "execute"]
    /\ UNCHANGED conn_log
    /\ ConnFrame

\* line 1398, _execute_daemon_request: an exception of line 1338 leaves the
\* handler; an input outside the allow-list gives 2; else handle_input runs
ConnExecute ==
    /\ conn.pc = "execute"
    /\ IF ~HasGet(conn) \/ ~Hashable(GetInput(conn))
       THEN conn' = [conn EXCEPT !.pc = "crashed"]
       ELSE LET mode == normalize_input_mode(GetInput(conn)) IN
            IF mode \notin ALLOWED_INPUT_MODES
            THEN conn' = [conn EXCEPT !.pc = "respond", !.norm = mode, !.rc = 2]
            ELSE \E out \in HandlerOutcomes :
                   conn' = [conn EXCEPT !.pc = "respond", !.norm = mode, !.ran = mode,
                                        !.rc = IF out.kind = "raise" THEN 1 ELSE out.rc]
    /\ UNCHANGED conn_log
    /\ ConnFrame

\* lines 1399-1403: one response line, with the status payload for runtime-status-json
ConnRespond ==
    /\ conn.pc = "respond"
    /\ conn' = [conn EXCEPT !.pc = "close", !.sent = @ + 1,
                            !.norm = normalize_input_mode(Str(GetInput(conn)))]
    /\ UNCHANGED conn_log
    /\ ConnFrame

\* the end of `with conn`, or _safe_handle_connection lines 28-33 after an
\* exception: the connection is closed
ConnClose ==
    /\ conn.pc \in {"close", "crashed"}
    /\ conn_log' = Append(conn_log, conn)
    /\ conn' = NoConn
    /\ ConnFrame

ConnNext ==
    \/ \E w \in WireRequests : ConnAccept(w)
    \/ ConnParse
    \/ ConnExecute
    \/ ConnRespond
    \/ ConnClose
ConnSpec == Init /\ [][ConnNext]_vars

(* ---- a hold session: _start_press_hold_session and _stop_press_hold_session ---- *)
MaxTampers == 1

\* the descriptor _start_press_hold_session writes for session k (lines 466-474)
WrittenDesc(k) == [form |-> "ok", sid |-> k, tmpdir |-> "own", audio |-> "own", started |-> "fresh"]
\* descriptor files as another program can leave them, naming session k's pid:
\* not JSON, the JSON value null, a JSON value that is no object, an object whose
\* pid does not convert to int or whose paths are no strings, and objects whose
\* tmpdir is outside the temp root or absent, whose audio_path is outside the
\* tmpdir or absent, or whose started_at is absent
CraftedDescs(k) ==
    {[form |-> f, sid |-> k, tmpdir |-> "own", audio |-> "own", started |-> "fresh"] :
        f \in {"unparsable", "null", "not_object", "bad_pid", "bad_path"}}
    \cup ({[form |-> "ok", sid |-> k, tmpdir |-> t, audio |-> a, started |-> st] :
              t \in {"own", "etc", "tmp-evil", ""}, a \in {"own", "elsewhere", ""},
              st \in {"fresh", "absent"}} \ {WrittenDesc(k)})
AllCraftedDescs == UNION {CraftedDescs(k) : k \in Sessions}

\* state_path.exists()
DescExists(d) == d.form # "none"
\* a start that never looks for an older session
DescExistsNever(d) == FALSE
\* line 446: the start preempts when the descriptor file exists
PreemptNeeded(d) == DescExists(d)

\* _load_press_hold_state lines 352-358: None after unlinking a file that does not
\* parse; json.loads of `null` is None as well, and nothing is unlinked for it
LoadsNone(d) == d.form \in {"unparsable", "null"}
\* lines 493-498 raise before the try block: no .get on a value that is no object,
\* int() of a pid that is no number, Path() of a path that is no string
RaisesBeforeTry(d) == d.form \in {"not_object", "bad_pid", "bad_path"}
\* the stop reaches the try/finally of lines 512-525
ReachesFinally(d) == d.form = "ok"

\* is_state_stale: only a number older than STATE_MAX_AGE_SECONDS is stale
is_state_stale(d) == d.started = "old"
\* pid_alive and pid_cmdline_contains for the process now under session s's pid
pid_alive(s) == h_procs[s] \in {"recorder", "foreign"}
pid_cmdline_contains(s) == h_procs[s] = "recorder"
\* _stop_press_hold_recorder and stop_recording_pid: the pids that are signalled
SignalledPids(d) ==
    IF /\ ReachesFinally(d) /\ d.sid > 0 /\ ~is_state_stale(d)
       /\ pid_alive(d.sid) /\ pid_cmdline_contains(d.sid)
    THEN {d.sid} ELSE {}

\* Path(state.get("tmpdir", "")): the directory the finally clause removes
NamedDir(d) == IF d.tmpdir = "" THEN "cwd" ELSE d.tmpdir
NamedDirExists(d) == IF d.tmpdir = "own" THEN d.sid \in h_tmpdirs ELSE NamedDir(d) \in h_foreign
\* the file _process_press_hold_transcription looks at: Path("") is the working
\* directory, which exists and has a size
NamedAudio(d) == IF d.audio = "" THEN "cwd" ELSE d.audio
\* how the stop of lines 480-525 can end for descriptor d: it returns an rc or
\* raises, and `read` is the file handed to transcribe, if any
StopOutcomes(d) ==
    IF ~DescExists(d) THEN {[out |-> "return", rc |-> 0, read |-> ""]}
    ELSE IF LoadsNone(d) THEN {[out |-> "return", rc |-> 1, read |-> ""]}
    ELSE IF RaisesBeforeTry(d) THEN {[out |-> "raise", rc |-> 0, read |-> ""]}
    ELSE IF d.audio = "" THEN {[out |-> "return", rc |-> 1, read |-> "cwd"]}
    ELSE (IF d.audio = "own" THEN {[out |-> "return", rc |-> 0, read |-> ""]} ELSE {})
         \cup (IF d.audio = "elsewhere" \/ NamedDirExists(d)
               THEN {[out |-> "return", rc |-> c, read |-> NamedAudio(d)] : c \in {0, 1}}
               ELSE {})

\* what the stop leaves of the descriptor, the processes and the directories
DescAfterStop(d) ==
    IF d.form = "unparsable" \/ ReachesFinally(d) THEN NoDesc ELSE d
ProcsAfterStop(d) ==
    [s \in Sessions |-> IF s \in SignalledPids(d) THEN "dead" ELSE h_procs[s]]
TmpdirsAfterStop(d) ==
    IF ReachesFinally(d) /\ d.tmpdir = "own" THEN h_tmpdirs \ {d.sid} ELSE h_tmpdirs
ForeignAfterStop(d) ==
    IF ReachesFinally(d) /\ d.tmpdir # "own" THEN h_foreign \ {NamedDir(d)} ELSE h_foreign

HoldFrame == UNCHANGED <<core_vars, conn_vars, vc_vars, more_vars>>

\* _stop_press_hold_session, lines 480-525
HStop ==
    /\ \E o \in StopOutcomes(h_desc) :
         h_last' = [op |-> "stop", out |-> o.out, rc |-> o.rc, found |-> h_desc,
                    signalled |-> SignalledPids(h_desc), read |-> o.read, sid |-> 0]
    /\ h_desc' = DescAfterStop(h_desc)
    /\ h_procs' = ProcsAfterStop(h_desc)
    /\ h_tmpdirs' = TmpdirsAfterStop(h_desc)
    /\ h_foreign' = ForeignAfterStop(h_desc)
    /\ UNCHANGED <<h_next, h_ffmpeg, h_tampers>>
    /\ HoldFrame

\* _start_press_hold_session, lines 443-477: preempt an existing session through
\* its stop, make the tmpdir, spawn the recorder, write the descriptor
HStart ==
    /\ h_next <= MaxSessions
    /\ LET k == h_next
           pre == PreemptNeeded(h_desc)
           d == IF pre THEN h_desc ELSE NoDesc
       IN \E o \in StopOutcomes(d) :
            IF o.out = "raise"
            THEN \* the exception of the preempting stop leaves the start
                 /\ h_desc' = DescAfterStop(d)
                 /\ h_procs' = ProcsAfterStop(d)
                 /\ h_tmpdirs' = TmpdirsAfterStop(d)
                 /\ h_next' = h_next
                 /\ h_last' = [op |-> "start", out |-> "raise", rc |-> 0, found |-> h_desc,
                               signalled |-> SignalledPids(d), read |-> o.read, sid |-> 0]
            ELSE /\ h_tmpdirs' = TmpdirsAfterStop(d) \cup {k}
                 /\ h_next' = h_next + 1
                 /\ IF h_ffmpeg
                    THEN /\ h_procs' = [ProcsAfterStop(d) EXCEPT ![k] = "recorder"]
                         /\ h_desc' = WrittenDesc(k)
                    ELSE \* FileNotFoundError, lines 461-464: rc 1, the tmpdir stays
                         /\ h_procs' = ProcsAfterStop(d)
                         /\ h_desc' = IF pre THEN DescAfterStop(d) ELSE h_desc
                 /\ h_last' = [op |-> "start", out |-> "return", rc |-> IF h_ffmpeg THEN 0 ELSE 1,
                               found |-> h_desc, signalled |-> SignalledPids(d), read |-> o.read,
                               sid |-> k]
    /\ h_foreign' = IF PreemptNeeded(h_desc) THEN ForeignAfterStop(h_desc) ELSE h_foreign
    /\ UNCHANGED <<h_ffmpeg, h_tampers>>
    /\ HoldFrame

\* the environment: a recorder exits on its own
HProcExit(s) ==
    /\ h_procs[s] = "recorder"
    /\ h_procs' = [h_procs EXCEPT ![s] = "dead"]
    /\ h_last' = NoLast
    /\ UNCHANGED <<h_desc, h_tmpdirs, h_foreign, h_next, h_ffmpeg, h_tampers>>
    /\ HoldFrame
\* the pid of a recorder that exited is given to another program
HPidReuse(s) ==
    /\ h_procs[s] = "dead"
    /\ h_procs' = [h_procs EXCEPT ![s] = "foreign"]
    /\ h_last' = NoLast
    /\ UNCHANGED <<h_desc, h_tmpdirs, h_foreign, h_next, h_ffmpeg, h_tampers>>
    /\ HoldFrame
\* STATE_MAX_AGE_SECONDS pass since the descriptor's started_at
HAge ==
    /\ h_desc.started = "fresh"
    /\ h_desc' = [h_desc EXCEPT !.started = "old"]
    /\ h_last' = NoLast
    /\ UNCHANGED <<h_procs, h_tmpdirs, h_foreign, h_next, h_ffmpeg, h_tampers>>
    /\ HoldFrame
\* another program rewrites the descriptor file of the session in progress
HTamper(d) ==
    /\ h_tampers < MaxTampers /\ DescExists(h_desc)
    /\ d \in CraftedDescs(h_desc.sid)
    /\ h_desc' = d
    /\ h_tampers' = h_tampers + 1
    /\ h_last' = NoLast
    /\ UNCHANGED <<h_procs, h_tmpdirs, h_foreign, h_next, h_ffmpeg>>
    /\ HoldFrame
\* ffmpeg is removed from, or put back on, the PATH
HFfmpeg ==
    /\ h_ffmpeg' = ~h_ffmpeg
    /\ h_last' = NoLast
    /\ UNCHANGED <<h_desc, h_procs, h_tmpdirs, h_foreign, h_next, h_tampers>>
    /\ HoldFrame

HoldNext ==
    \/ HStart
    \/ HStop
    \/ \E s \in Sessions : HProcExit(s)
    \/ \E s \in Sessions : HPidReuse(s)
    \/ HAge
    \/ \E d \in AllCraftedDescs : HTamper(d)
    \/ HFfmpeg
HoldSpec == Init /\ [][HoldNext]_vars

(* ---- voice_controls: _start_session, _stop_session and run_daemon ---- *)
\* the session _stop_session works on: the one in memory, else the one the
\* recovery file names (lines 369-370), else none
StoppedSession == IF ACTIVE_SESSION # 0 THEN ACTIVE_SESSION ELSE recovery_state
\* _process_captured_audio returns 0, or 1 when transcription or pasting fails
ProcessRcs == {0, 1}
StopRcs == IF StoppedSession = 0 THEN {0} ELSE ProcessRcs
\* _stop_capture_process and _stop_capture_pid end the recorder if it still runs
VcProcsAfterStop(s) ==
    [x \in VcSessions |-> IF x = s /\ vc_procs[x] = "recorder" THEN "dead" ELSE vc_procs[x]]
\* the finally clause of lines 409-411: _clear_recovery_state unlinks the recovery
\* file, _cleanup_recovery_tmpdir removes the session's tmpdir
RecoveryAfterStop == 0
VcTmpdirsAfterStop(s) == vc_tmpdirs \ {s}
\* line 328: _start_session preempts only a session it holds in memory
VcPreempts == ACTIVE_SESSION # 0
\* Popen and _write_recovery_state succeed, Popen raises FileNotFoundError, or
\* writing the recovery file raises
VcStartOutcomes == {"ok", "no_ffmpeg", "write_failed"}

VcFrame == UNCHANGED <<core_vars, conn_vars, hold_vars, more_vars>>

\* _stop_session, lines 365-411
VcStop ==
    /\ vc_up
    /\ LET s == StoppedSession
       IN /\ \E c \in StopRcs : vc_last' = [op |-> "stop", rc |-> c, sid |-> s]
          /\ ACTIVE_SESSION' = 0
          /\ recovery_state' = IF s = 0 THEN recovery_state ELSE RecoveryAfterStop
          /\ vc_procs' = VcProcsAfterStop(s)
          /\ vc_tmpdirs' = VcTmpdirsAfterStop(s)
    /\ UNCHANGED <<vc_up, vc_next>>
    /\ VcFrame

\* _start_session, lines 324-362
VcStart ==
    /\ vc_up /\ vc_next <= MaxVcSessions
    /\ LET pre == VcPreempts
           old == IF pre THEN StoppedSession ELSE 0
           procs1 == VcProcsAfterStop(old)
           tmp1 == VcTmpdirsAfterStop(old)
           rec1 == IF old = 0 THEN recovery_state ELSE RecoveryAfterStop
           k == vc_next
       IN \E o \in VcStartOutcomes :
            /\ vc_next' = k + 1
            /\ IF o = "ok"
               THEN /\ ACTIVE_SESSION' = k
                    /\ recovery_state' = k
                    /\ vc_tmpdirs' = tmp1 \cup {k}
                    /\ vc_procs' = [procs1 EXCEPT ![k] = "recorder"]
                    /\ vc_last' = [op |-> "start", rc |-> 0, sid |-> k]
               ELSE \* lines 340-344 and 349-355: the new tmpdir is removed, rc 1
                    /\ ACTIVE_SESSION' = 0
                    /\ recovery_state' = rec1
                    /\ vc_tmpdirs' = tmp1
                    /\ vc_procs' = [procs1 EXCEPT ![k] = IF o = "write_failed" THEN "dead" ELSE "none"]
                    /\ vc_last' = [op |-> "start", rc |-> 1, sid |-> k]
    /\ UNCHANGED vc_up
    /\ VcFrame

\* SIGTERM or SIGINT, _request_shutdown lines 647-661: the recorder of the session
\* in memory is stopped and the daemon leaves its loop; the process memory is gone
VcShutdown ==
    /\ vc_up
    /\ vc_up' = FALSE
    /\ vc_procs' = VcProcsAfterStop(ACTIVE_SESSION)
    /\ ACTIVE_SESSION' = 0
    /\ vc_last' = NoVcLast
    /\ UNCHANGED <<recovery_state, vc_tmpdirs, vc_next>>
    /\ VcFrame
\* the daemon is killed: no handler runs
VcCrash ==
    /\ vc_up
    /\ vc_up' = FALSE
    /\ ACTIVE_SESSION' = 0
    /\ vc_last' = NoVcLast
    /\ UNCHANGED <<recovery_state, vc_tmpdirs, vc_procs, vc_next>>
    /\ VcFrame
\* run_daemon, lines 635-715, started again: ACTIVE_SESSION is None and the
\* recovery file is not looked at
VcRestart ==
    /\ ~vc_up
    /\ vc_up' = TRUE
    /\ vc_last' = NoVcLast
    /\ UNCHANGED <<ACTIVE_SESSION, recovery_state, vc_tmpdirs, vc_procs, vc_next>>
    /\ VcFrame
\* a recorder exits on its own
VcProcExit(s) ==
    /\ vc_procs[s] = "recorder"
    /\ vc_procs' = [vc_procs EXCEPT ![s] = "dead"]
    /\ vc_last' = NoVcLast
    /\ UNCHANGED <<vc_up, ACTIVE_SESSION, recovery_state, vc_tmpdirs, vc_next>>
    /\ VcFrame

VcNext ==
    \/ VcStart
    \/ VcStop
    \/ VcShutdown
    \/ VcCrash
    \/ VcRestart
    \/ \E s \in VcSessions : VcProcExit(s)
VcSpec == Init /\ [][VcNext]_vars

(* ---- endpointed capture: run_endpointed_command_session (orchestrator.py) ---- *)
\* time is counted in frame periods (SESSION_FRAME_MS), sound in levels of RMS
SessionMaxTicks == 3
StartTimeoutTicks == 2
MinSpeechFrames == 2
EndSilenceFrames == 2
ReadTimeoutTicks == 2
RmsThreshold == 2
MaxLevel == 2
PrerollMaxAge == 1
EpMaxClock == 7
Levels == 0..MaxLevel
EpSources == {"wake_start", "command_auto"}
\* app.py 888-899 passes WAKE_START_SPEECH_TIMEOUT_MS for a wake session, and
\* 1069-1074 none for command-auto, which line 91 resolves to 0
start_timeout_ms(source) == IF source = "wake_start" THEN StartTimeoutTicks ELSE 0

\* what can be found at WAKE_PREROLL_PCM_PATH: nothing, or a file of some age
\* that can be read or not, holding no byte, one byte, or samples with a peak
PrerollFiles ==
    {NoFile} \cup
    {[exists |-> TRUE, age |-> a, readable |-> r, len |-> d.len, peak |-> d.peak] :
        a \in 0..(PrerollMaxAge + 1), r \in BOOLEAN,
        d \in {NoBytes, [len |-> 1, peak |-> 0]} \cup {[len |-> 2, peak |-> p] : p \in Levels}}
\* a pre-roll read that does not look at the file's age
load_wake_preroll_any_age(f) ==
    IF f.exists /\ f.readable THEN [len |-> f.len, peak |-> f.peak] ELSE NoBytes
\* _load_wake_preroll, lines 68-79
load_wake_preroll(f) ==
    IF ~f.exists THEN NoBytes
    ELSE IF f.age > PrerollMaxAge THEN NoBytes
    ELSE IF ~f.readable THEN NoBytes
    ELSE [len |-> f.len, peak |-> f.peak]
\* line 108
PrerollBytes(source, f) == IF source = "wake_start" THEN load_wake_preroll(f) ELSE NoBytes
\* _preroll_has_speech, lines 52-65
preroll_has_speech(d, rms_threshold) == d.len >= 2 /\ d.peak >= rms_threshold

\* EndpointVAD.update (vad.py 39-57) for a frame of the given RMS; the speech
\* counter is only ever compared with min_speech_ms and is kept no larger
VadUpdate(v, rms) ==
    LET is_speech == rms >= RmsThreshold
        speech == IF is_speech /\ v.speech < MinSpeechFrames THEN v.speech + 1 ELSE v.speech
        silence == IF is_speech THEN 0
                   ELSE IF v.has_started /\ v.silence < EndSilenceFrames THEN v.silence + 1
                   ELSE v.silence
    IN [speech |-> speech, silence |-> silence,
        has_started |-> v.has_started \/ speech >= MinSpeechFrames]
VadEndpoint(v) == v.has_started /\ v.silence >= EndSilenceFrames

\* a session that returns no-speech whenever the live stream had none
NoSpeechIgnoringPreroll(has_started, had_preroll_speech) == ~has_started
\* line 271
NoSpeech(has_started, had_preroll_speech) == ~has_started /\ ~had_preroll_speech
\* _transcribe_and_dispatch returns 1 when transcribe raises, else the handler's rc
DispatchRcs == {0, 1}

EpFrame == UNCHANGED <<core_vars, first_vars, wk_vars, late_vars>>

\* run_endpointed_command_session up to the capture loop: lines 228-260, 105-113
EpBegin(source, f) ==
    /\ ep.pc \in {"idle", "done"}
    /\ LET data == PrerollBytes(source, f)
       IN ep' = [NoSession EXCEPT !.pc = "loop", !.source = source, !.file = f,
                                  !.preroll = data,
                                  !.had_preroll_speech = preroll_has_speech(data, RmsThreshold)]
    /\ EpFrame

\* the two checks at the head of the loop, lines 116-124
TimedOut(e) ==
    \/ e.speech_started_at = -1 /\ e.clock >= SessionMaxTicks
    \/ start_timeout_ms(e.source) > 0 /\ ~e.vad.has_started /\ e.clock >= start_timeout_ms(e.source)
\* lines 132-154 for a frame of the given RMS read in the iteration begun at `now`
AfterFrame(e, rms) ==
    LET now == e.clock
        v == VadUpdate(e.vad, rms)
        started_at == IF v.has_started /\ e.speech_started_at = -1 THEN now ELSE e.speech_started_at
        last_at == IF rms >= RmsThreshold THEN now ELSE e.last_speech_at
        inactive == v.has_started /\ last_at # -1 /\ now - last_at >= SessionMaxTicks
    IN [e EXCEPT !.clock = now + 1, !.frames = e.frames + 1, !.vad = v,
                 !.speech_started_at = started_at, !.last_speech_at = last_at,
                 !.pc = IF inactive \/ VadEndpoint(v) THEN "captured" ELSE "loop"]
\* one iteration of the loop of lines 115-154: it breaks on a timeout, else reads
\* a frame, or waits read_timeout_ms in vain while the stream runs, or finds the
\* stream ended
EpIterate ==
    /\ ep.pc = "loop"
    /\ IF TimedOut(ep)
       THEN ep' = [ep EXCEPT !.pc = "captured"]
       ELSE \/ \E rms \in Levels : ep.clock < EpMaxClock /\ ep' = AfterFrame(ep, rms)
            \/ /\ ep.clock + ReadTimeoutTicks <= EpMaxClock
               /\ ep' = [ep EXCEPT !.clock = ep.clock + ReadTimeoutTicks]
            \/ ep' = [ep EXCEPT !.pc = "captured"]
    /\ EpFrame

\* lines 271-284: no-speech, or transcription and dispatch
EpFinish ==
    /\ ep.pc = "captured"
    /\ IF NoSpeech(ep.vad.has_started, ep.had_preroll_speech)
       THEN ep' = [ep EXCEPT !.pc = "done", !.rc = NO_SPEECH_EXIT_CODE]
       ELSE \E c \in DispatchRcs : ep' = [ep EXCEPT !.pc = "done", !.rc = c, !.transcribed = TRUE]
    /\ EpFrame

EpNext ==
    \/ \E source \in EpSources, f \in PrerollFiles : EpBegin(source, f)
    \/ EpIterate
    \/ EpFinish
EpSpec == Init /\ [][EpNext]_vars

(* ---- the daemon client: request_daemon_response (app.py) ---- *)
DefaultRetries == 2
MaxAttempts == 2
MaxRetries == 3
WAKE_DAEMON_RETRIES == 1
ResponseRcs == 0..5
\* how one attempt of lines 1297-1312 can go: the connect fails; the request is
\* sent and no line comes back in time; a line comes back that is no JSON, or whose
\* rc is a string that is no number, or that is JSON but no object; or a response
\* object with an rc arrives
AttemptKinds == {"no_connect", "timeout", "malformed", "bad_rc", "not_object", "response"}
AttemptOutcomes ==
    {[kind |-> k, rc |-> 1] : k \in AttemptKinds \ {"response"}}
    \cup {[kind |-> "response", rc |-> c] : c \in ResponseRcs}
\* the attempts of one request: any outcome of the first, and for the attempts
\* after it a failed connect or an answer
RetryOutcomes == {[kind |-> "no_connect", rc |-> 1], [kind |-> "response", rc |-> 0]}
AttemptSeqs ==
    {<<o>> \o r : o \in AttemptOutcomes, r \in [1..(MaxAttempts - 1) -> RetryOutcomes]}
\* sendall ran (line 1301), and a response line was received (line 1302)
Sent(o) == o.kind # "no_connect"
Received(o) == o.kind \in {"malformed", "bad_rc", "not_object", "response"}
\* the except clause of line 1313: OSError and socket.timeout, JSONDecodeError from
\* _recv_json_line, ValueError from int(rc_raw)
Caught(o) == o.kind \in {"no_connect", "timeout", "malformed", "bad_rc"}
\* data.get of a JSON value that is no object raises AttributeError, caught nowhere
Raises(o) == o.kind = "not_object"
\* line 1294
active_retries(retries) == IF retries = 0 THEN DefaultRetries ELSE IF retries < 1 THEN 1 ELSE retries
NewClient == [pc |-> "try", attempt |-> 0, sends |-> 0, received |-> 0, spawns |-> 0, rc |-> 0]
\* one pass through the loop body of lines 1296-1318 with attempt outcome o
ClientStep(c, o, auto_start, retries) ==
    LET c1 == [c EXCEPT !.sends = c.sends + (IF Sent(o) THEN 1 ELSE 0),
                        !.received = c.received + (IF Received(o) THEN 1 ELSE 0)]
    IN IF Raises(o) THEN [c1 EXCEPT !.pc = "raised"]
       ELSE IF ~Caught(o) THEN [c1 EXCEPT !.pc = "returned", !.rc = o.rc]
       ELSE IF ~auto_start THEN [c1 EXCEPT !.pc = "returned", !.rc = 1]
       ELSE LET c2 == [c1 EXCEPT !.spawns = c1.spawns + (IF c.attempt = 0 THEN 1 ELSE 0),
                                 !.attempt = c.attempt + 1]
            IN IF c2.attempt >= active_retries(retries)
               THEN [c2 EXCEPT !.pc = "returned", !.rc = 1]
               ELSE c2
\* request_daemon_response run to its end, outs[i] being the outcome of attempt i
RECURSIVE ClientRun(_, _, _, _)
ClientRun(c, outs, auto_start, retries) ==
    IF c.pc # "try" \/ c.attempt >= Len(outs) THEN c
    ELSE ClientRun(ClientStep(c, outs[c.attempt + 1], auto_start, retries), outs, auto_start, retries)

\* voice_controls request_daemon, lines 533-553: what its except clauses catch; a
\* line _recv_line (202-224) refuses is "malformed", every line it returns is
\* turned into an rc by _parse_rc_line (500-520), which never raises
ControlsCaught(o) == o.kind \in {"no_connect", "timeout", "malformed"}
\* one _send_daemon_request of voice_controls request_daemon; `ready` tells whether
\* the daemon it spawns reports READY
ControlsStep(c, o, ready) ==
    LET c1 == [c EXCEPT !.sends = c.sends + (IF Sent(o) THEN 1 ELSE 0),
                        !.received = c.received + (IF Received(o) THEN 1 ELSE 0)]
    IN IF ~ControlsCaught(o)
       THEN [c1 EXCEPT !.pc = "returned", !.rc = IF o.kind = "response" THEN o.rc ELSE 1]
       ELSE IF c.attempt = 0 /\ ready
       THEN [c1 EXCEPT !.spawns = c1.spawns + 1, !.attempt = 1]
       ELSE [c1 EXCEPT !.spawns = c1.spawns + (IF c.attempt = 0 THEN 1 ELSE 0),
                       !.pc = "returned", !.rc = 1]
ClVariants == {"hotkey", "controls"}
ClRetries == 0..MaxRetries
ClFrame == UNCHANGED <<core_vars, first_vars, ep_vars, wk_vars, su_vars, sd_vars, vd_vars, last_vars>>
\* the command-line entry point calls request_daemon; voice_controls has no
\* arguments to it, retries = 0 stands for retries=None
ClInvoke(variant, auto_start, retries) ==
    /\ cl.pc # "try"
    /\ variant = "controls" => (auto_start /\ retries = 0)
    /\ cl' = [NewClient EXCEPT !.pc = "try"] @@
             [variant |-> variant, auto_start |-> auto_start, retries |-> retries, last |-> ""]
    /\ ClFrame
\* one pass of the client's attempt loop, with the outcome the socket gives it
ClAttempt(o, ready) ==
    /\ cl.pc = "try"
    /\ LET c == [f \in DOMAIN NewClient |-> cl[f]]
           c1 == IF cl.variant = "hotkey" THEN ClientStep(c, o, cl.auto_start, cl.retries)
                 ELSE ControlsStep(c, o, ready)
       IN cl' = c1 @@ [variant |-> cl.variant, auto_start |-> cl.auto_start,
                       retries |-> cl.retries, last |-> o.kind]
    /\ ClFrame
ClNext ==
    \/ \E variant \in ClVariants, auto_start \in BOOLEAN, retries \in ClRetries :
          ClInvoke(variant, auto_start, retries)
    \/ \E o \in AttemptOutcomes, ready \in BOOLEAN : ClAttempt(o, ready)
ClSpec == Init /\ [][ClNext]_vars

(* ---- daemon start-up: run_daemon (voice_hotkey/app.py, voice_controls/app.py) ---- *)
SuVariants == {"hotkey", "controls"}
SuFrame == UNCHANGED <<core_vars, first_vars, ep_vars, wk_vars, cl_vars, sd_vars, vd_vars, last_vars>>
SuGoto(p, label) == [su EXCEPT !.pc[p] = label]
\* the process is gone: the kernel drops its flock and closes its sockets
SuGone(p, label) ==
    [su EXCEPT !.pc[p] = label, !.lock = IF su.lock = p THEN 0 ELSE su.lock,
               !.listening = su.listening \ {p}]
\* a daemon process is started; every process of a run is of the same code base
SuLaunch(variant, p) ==
    /\ su.pc[p] = "off"
    /\ su.variant \in {"", variant}
    /\ su' = [su EXCEPT !.variant = variant,
                        !.pc[p] = IF variant = "hotkey" THEN "lock" ELSE "exists"]
    /\ SuFrame
\* voice_hotkey run_daemon, lines 1410-1416: flock(LOCK_EX | LOCK_NB); the loser returns 0
SuLock(p) ==
    /\ su.pc[p] = "lock"
    /\ su' = IF su.lock = 0 THEN [su EXCEPT !.lock = p, !.pc[p] = "exists"]
             ELSE SuGoto(p, "off")
    /\ SuFrame
\* SOCKET_PATH.exists(): voice_hotkey (1419-1420) unlinks at once, voice_controls
\* (666-667) goes on to probe the socket
SuExists(p) ==
    /\ su.pc[p] = "exists"
    /\ su' = IF su.sock_file = 0 THEN SuGoto(p, "bind")
             ELSE IF su.variant = "hotkey" THEN [su EXCEPT !.sock_file = 0, !.pc[p] = "bind"]
             ELSE SuGoto(p, "probe")
    /\ SuFrame
\* voice_controls _socket_has_live_daemon, lines 623-632: the connect succeeds when
\* the process that bound the file is listening
SuProbe(p) ==
    /\ su.pc[p] = "probe"
    /\ su' = IF su.sock_file \in su.listening THEN SuGoto(p, "off") ELSE SuGoto(p, "unlink")
    /\ SuFrame
\* voice_controls line 670: SOCKET_PATH.unlink(missing_ok=True)
SuUnlink(p) ==
    /\ su.pc[p] = "unlink"
    /\ su' = [su EXCEPT !.sock_file = 0, !.pc[p] = "bind"]
    /\ SuFrame
\* bind(): fails with EADDRINUSE when the path exists, and the process ends with
\* the exception (voice_hotkey 1430, voice_controls 680, `bound` still False)
SuBind(p) ==
    /\ su.pc[p] = "bind"
    /\ su' = IF su.sock_file # 0 THEN SuGone(p, "off")
             ELSE [su EXCEPT !.sock_file = p, !.pc[p] = "listen"]
    /\ SuFrame
\* listen(), then the accept loop
SuListen(p) ==
    /\ su.pc[p] = "listen"
    /\ su' = [su EXCEPT !.listening = su.listening \cup {p}, !.pc[p] = "serving"]
    /\ SuFrame
\* the serving process ends: voice_controls unlinks SOCKET_PATH in its finally
\* (713-715) unless it is killed; voice_hotkey only closes its lock handle (1455)
SuExit(p, killed) ==
    /\ su.pc[p] = "serving"
    /\ su' = IF su.variant = "controls" /\ ~killed
             THEN [SuGone(p, "off") EXCEPT !.sock_file = 0]
             ELSE SuGone(p, "off")
    /\ SuFrame
SuNext ==
    \/ \E variant \in SuVariants, p \in Starters : SuLaunch(variant, p)
    \/ \E p \in Starters : SuLock(p)
    \/ \E p \in Starters : SuExists(p)
    \/ \E p \in Starters : SuProbe(p)
    \/ \E p \in Starters : SuUnlink(p)
    \/ \E p \in Starters : SuBind(p)
    \/ \E p \in Starters : SuListen(p)
    \/ \E p \in Starters, killed \in BOOLEAN : SuExit(p, killed)
SuSpec == Init /\ [][SuNext]_vars

(* ---- daemon shutdown: run_daemon and its accept loop under SIGTERM, SIGINT ---- *)
MaxSignals == 2
MaxServed == 3
SdVariants == {"hotkey", "controls"}
SdRequests == {"start", "stop", "other"}
SdFrame == UNCHANGED <<core_vars, first_vars, ep_vars, wk_vars, cl_vars, su_vars, vd_vars, last_vars>>
\* the daemon has bound its socket and enters its accept loop
SdBoot(variant) ==
    /\ sd.pc \in {"off", "exited"}
    /\ sd' = [variant |-> variant, pc |-> "accept", shutdown |-> FALSE, listener |-> "open",
              sock_file |-> TRUE, session |-> FALSE, recorder |-> "none", busy |-> 0,
              signals |-> 0, served |-> 0]
    /\ SdFrame
\* accept(): voice_controls handles the connection in the accept loop itself,
\* voice_hotkey hands it to the thread pool (controller.py, line 54)
SdAccept(request) ==
    /\ sd.pc = "accept" /\ sd.listener = "open" /\ sd.served < MaxServed
    /\ sd.variant = "controls" => ~sd.shutdown
    /\ sd' = IF sd.variant = "controls"
             THEN [sd EXCEPT !.served = sd.served + 1,
                             !.pc = IF request = "start" THEN "start"
                                    ELSE IF request = "stop" THEN "stop" ELSE "respond"]
             ELSE [sd EXCEPT !.served = sd.served + 1, !.busy = sd.busy + 1,
                             !.recorder = IF request = "start" THEN "running"
                                          ELSE IF request = "stop" THEN "none" ELSE sd.recorder]
    /\ SdFrame
\* voice_hotkey: a pool thread is done with its connection
SdHandled ==
    /\ sd.variant = "hotkey" /\ sd.pc = "accept" /\ sd.busy > 0
    /\ sd' = [sd EXCEPT !.busy = sd.busy - 1]
    /\ SdFrame
\* voice_controls _start_session up to and including Popen (lines 328-342); a
\* session already active is stopped first
SdPopen ==
    /\ sd.pc = "start"
    /\ sd' = [sd EXCEPT !.session = FALSE, !.recorder = "running", !.pc = "spawned"]
    /\ SdFrame
\* voice_controls _start_session, line 349: ACTIVE_SESSION = DictationSession(...)
SdSetSession ==
    /\ sd.pc = "spawned"
    /\ sd' = [sd EXCEPT !.session = TRUE, !.pc = "respond"]
    /\ SdFrame
\* voice_controls _stop_session: the active session's recorder is stopped
SdStop ==
    /\ sd.pc = "stop"
    /\ sd' = [sd EXCEPT !.session = FALSE, !.pc = "respond",
                        !.recorder = IF sd.session THEN "none" ELSE sd.recorder]
    /\ SdFrame
\* the response is sent and the loop comes back to its condition
SdRespond ==
    /\ sd.pc = "respond"
    /\ sd' = [sd EXCEPT !.pc = "accept"]
    /\ SdFrame
\* SIGTERM or SIGINT. voice_controls runs _request_shutdown (647-661) between two
\* bytecodes of the main thread; voice_hotkey installs no handler, so the process
\* ends where it stands: the kernel closes its listener and nothing else happens
SdSignal ==
    /\ sd.pc \notin {"off", "exited"} /\ sd.signals < MaxSignals
    /\ sd' = IF sd.variant = "controls"
             THEN [sd EXCEPT !.signals = sd.signals + 1, !.shutdown = TRUE,
                             !.listener = "closed",
                             !.recorder = IF sd.session /\ sd.recorder = "running"
                                          THEN "signalled" ELSE sd.recorder]
             ELSE [sd EXCEPT !.signals = sd.signals + 1, !.listener = "closed",
                             !.busy = 0, !.pc = "exited"]
    /\ SdFrame
\* voice_controls lines 699-715: the loop ends on the flag, the finally unlinks
\* the socket path
SdLoopExit ==
    /\ sd.variant = "controls" /\ sd.pc = "accept" /\ sd.shutdown
    /\ sd' = [sd EXCEPT !.pc = "exited", !.sock_file = FALSE, !.listener = "closed"]
    /\ SdFrame
SdNext ==
    \/ \E variant \in SdVariants : SdBoot(variant)
    \/ \E request \in SdRequests : SdAccept(request)
    \/ SdHandled
    \/ SdPopen
    \/ SdSetSession
    \/ SdStop
    \/ SdRespond
    \/ SdSignal
    \/ SdLoopExit
SdSpec == Init /\ [][SdNext]_vars

(* ---- EndpointVAD (vad.py), frame by frame ---- *)
MaxVadFrames == 5
MaxRms == 2
\* constructor arguments, in ms and RMS units
VadFrameMs == {5, 10, 20}
VadThresholds == {0, 2}
VadSpeechMs == {0, 20, 30}
VadSilenceMs == {0, 20, 30}
Max2(a, b) == IF a >= b THEN a ELSE b
VdFrame == UNCHANGED <<core_vars, first_vars, ep_vars, wk_vars, cl_vars, su_vars, sd_vars, last_vars>>
\* an update that wants its speech frames in one run
update_consecutive(v, rms) ==
    LET is_speech == rms >= v.rms_threshold
        speech_ms == IF is_speech THEN v.speech_ms + v.frame_ms ELSE 0
        silence_ms == IF is_speech THEN 0
                      ELSE IF v.has_started THEN v.silence_ms + v.frame_ms ELSE v.silence_ms
        has_started == v.has_started \/ speech_ms >= v.min_speech_ms
    IN [v EXCEPT !.speech_ms = speech_ms, !.silence_ms = silence_ms, !.has_started = has_started,
                 !.ret = [has_started |-> has_started,
                          endpoint |-> has_started /\ silence_ms >= v.end_silence_ms, rms |-> rms]]
\* EndpointVAD.update for a frame that is not empty, lines 43-57
update(v, rms) ==
    LET is_speech == rms >= v.rms_threshold
        speech_ms == IF is_speech THEN v.speech_ms + v.frame_ms ELSE v.speech_ms
        silence_ms == IF is_speech THEN 0
                      ELSE IF v.has_started THEN v.silence_ms + v.frame_ms ELSE v.silence_ms
        has_started == v.has_started \/ speech_ms >= v.min_speech_ms
    IN [v EXCEPT !.speech_ms = speech_ms, !.silence_ms = silence_ms, !.has_started = has_started,
                 !.ret = [has_started |-> has_started,
                          endpoint |-> has_started /\ silence_ms >= v.end_silence_ms, rms |-> rms]]
\* EndpointVAD.__init__, lines 19-33
VdNew(frame_ms, rms_threshold, min_speech_ms, end_silence_ms) ==
    /\ vd.pc = "new"
    /\ vd' = [vd EXCEPT !.pc = "run", !.op = "init",
                        !.frame_ms = Max2(10, frame_ms),
                        !.rms_threshold = Max2(1, rms_threshold),
                        !.min_speech_ms = Max2(Max2(10, frame_ms), min_speech_ms),
                        !.end_silence_ms = Max2(Max2(10, frame_ms), end_silence_ms)]
    /\ VdFrame
\* update(frame) with a frame of the given RMS
VdUpdate(rms) ==
    /\ vd.pc = "run" /\ Len(vd.fed) < MaxVadFrames
    /\ vd' = [update(vd, rms) EXCEPT !.fed = Append(vd.fed, rms), !.op = "frame"]
    /\ VdFrame
\* update(b""), lines 40-41: nothing is counted and no endpoint is reported
VdNoFrame ==
    /\ vd.pc = "run" /\ vd.op # "empty"
    /\ vd' = [vd EXCEPT !.op = "empty",
                        !.ret = [has_started |-> vd.has_started, endpoint |-> FALSE, rms |-> 0]]
    /\ VdFrame
VdNext ==
    \/ \E frame_ms \in VadFrameMs, rms_threshold \in VadThresholds,
          min_speech_ms \in VadSpeechMs, end_silence_ms \in VadSilenceMs :
            VdNew(frame_ms, rms_threshold, min_speech_ms, end_silence_ms)
    \/ \E rms \in 0..MaxRms : VdUpdate(rms)
    \/ VdNoFrame
VdSpec == Init /\ [][VdNext]_vars

(* ---- the wake listener: run_wakeword_daemon (wakeword.py) ---- *)
ErrorRearmTicks == 2
NoSpeechRearmTicks == 4
MaxWkClock == 7
MaxTriggers == 2
WakeThreshold == 1
MaxScore == 2
EmptyRestartThreshold == 2
WakeScores == [WakeModels -> 0..MaxScore]
\* line 284: max over the scores; of equal scores the first model wins
TopModel(scores) == IF scores["m1"] >= scores["m2"] THEN "m1" ELSE "m2"
\* a listener that knows no cooldown
should_trigger_wake_no_cooldown(now, last_trigger_at, rearm_until, enabled) ==
    ~(now < rearm_until) /\ enabled
\* _should_trigger_wake, lines 136-143
should_trigger_wake(now, last_trigger_at, rearm_until, enabled) ==
    ~(now < rearm_until) /\ ~(now - last_trigger_at < CooldownTicks) /\ enabled
\* _classify_wake_trigger_result, lines 197-208
classify_wake_trigger_result(code) ==
    IF code = 0 THEN "ok"
    ELSE IF code = NO_SPEECH_EXIT_CODE THEN "no_speech"
    ELSE IF code = CANCELLED_EXIT_CODE THEN "cancelled"
    ELSE IF code = 2 THEN "stale_daemon"
    ELSE IF code = 1 THEN "busy_or_error"
    ELSE "rc_other"
\* a result handling that counts a failed trigger as the last trigger
apply_wake_trigger_result_always_last(now, code, last_trigger_at, rearm_until) ==
    IF code = NO_SPEECH_EXIT_CODE THEN [last |-> now, rearm |-> now + NoSpeechRearmTicks]
    ELSE IF code # 0 THEN [last |-> now, rearm |-> now + ErrorRearmTicks]
    ELSE [last |-> now, rearm |-> rearm_until]
\* _apply_wake_trigger_result, lines 167-194
apply_wake_trigger_result(now, code, last_trigger_at, rearm_until) ==
    IF code = NO_SPEECH_EXIT_CODE THEN [last |-> now, rearm |-> now + NoSpeechRearmTicks]
    ELSE IF code = CANCELLED_EXIT_CODE THEN [last |-> last_trigger_at, rearm |-> now + ErrorRearmTicks]
    ELSE IF code # 0 THEN [last |-> last_trigger_at, rearm |-> now + ErrorRearmTicks]
    ELSE [last |-> now, rearm |-> rearm_until]
\* _record_wake_trigger_outcome, lines 211-213
record_wake_trigger_outcome(counts, reason) == [counts EXCEPT ![reason] = counts[reason] + 1]
\* a trigger that asks the client for its defaults
WakeRequestDefaults == [auto_start |-> TRUE, retries |-> 0]
\* the arguments of lines 155-161
WakeRequest == [auto_start |-> FALSE, retries |-> WAKE_DAEMON_RETRIES]
\* lines 284-290: only the entry of the model with the highest score changes
StreakAfterFrame(streak, scores) ==
    LET name == TopModel(scores)
    IN [streak EXCEPT ![name] = IF scores[name] < WakeThreshold THEN 0
                                ELSE IF streak[name] < MinConsecutive THEN streak[name] + 1
                                ELSE streak[name]]
\* for each model, the number of frames up to this one, without a gap, in which it
\* scored at or above the threshold (counted up to min_consecutive)
ConsecutiveAfterFrame(consecutive, scores) ==
    [m \in WakeModels |->
        IF scores[m] < WakeThreshold THEN 0
        ELSE IF consecutive[m] < MinConsecutive THEN consecutive[m] + 1 ELSE consecutive[m]]

WkFrame == UNCHANGED <<core_vars, first_vars, ep_vars, late_vars>>

\* lines 262-272: no frame came; a stream that exited, or that stalled too long,
\* is restarted
WkNoFrame(running) ==
    /\ wk.pc = "run"
    /\ LET restart == ~running \/ wk.empty_frame_streak + 1 >= EmptyRestartThreshold
       IN /\ wk' = [wk EXCEPT !.empty_frame_streak = IF restart THEN 0 ELSE wk.empty_frame_streak + 1,
                              !.consecutive = [m \in WakeModels |-> 0]]
          /\ wk_last' = [NoWkLast EXCEPT !.op = "no_frame",
                             !.events = IF restart THEN <<"stream_stop", "stream_start">> ELSE <<>>]
    /\ WkFrame

\* lines 276-282: predict raised or gave no scores
WkNoScores ==
    /\ wk.pc = "run"
    /\ wk' = [wk EXCEPT !.empty_frame_streak = 0, !.consecutive = [m \in WakeModels |-> 0]]
    /\ wk_last' = [NoWkLast EXCEPT !.op = "no_scores"]
    /\ WkFrame

\* lines 305-317: the trigger, and the handling of its result, when the attempts
\* of the client go as outs says
WkTrigger(w1, name, now, outs) ==
    LET res == ClientRun(NewClient, outs, WakeRequest.auto_start, WakeRequest.retries)
        ap == apply_wake_trigger_result(now, res.rc, wk.last_trigger_at, wk.rearm_until)
        fired == <<"write_preroll", "stream_stop">>
                 \o [i \in 1..res.sends |-> "send"] \o [i \in 1..res.spawns |-> "spawn"]
                 \o <<"stream_start">>
    IN IF res.pc = "raised"
       THEN \* the exception leaves run_wakeword_daemon through the finally of
            \* line 162 and the stream's context manager
            /\ wk' = [w1 EXCEPT !.streak_by_name[name] = 0, !.pc = "dead", !.stream = "stopped",
                                !.triggers = wk.triggers + 1,
                                !.sent_at = IF res.sends > 0 THEN now ELSE wk.sent_at]
            /\ wk_last' = [op |-> "trigger", now |-> now, detected |-> name, rc |-> 0,
                           raised |-> TRUE, events |-> fired \o <<"stream_stop">>,
                           sends |-> res.sends, spawns |-> res.spawns,
                           since |-> IF wk.sent_at = -1 THEN -1 ELSE now - wk.sent_at,
                           after_rc |-> wk.sent_rc]
       ELSE /\ wk' = [w1 EXCEPT !.streak_by_name[name] = 0,
                                !.last_trigger_at = ap.last, !.rearm_until = ap.rearm,
                                !.counts = record_wake_trigger_outcome(wk.counts, classify_wake_trigger_result(res.rc)),
                                !.triggers = wk.triggers + 1,
                                !.sent_at = IF res.sends > 0 THEN now ELSE wk.sent_at,
                                !.sent_rc = IF res.sends > 0 THEN res.rc ELSE wk.sent_rc]
            /\ wk_last' = [op |-> "trigger", now |-> now, detected |-> name, rc |-> res.rc,
                           raised |-> FALSE, events |-> fired,
                           sends |-> res.sends, spawns |-> res.spawns,
                           since |-> IF wk.sent_at = -1 THEN -1 ELSE now - wk.sent_at,
                           after_rc |-> wk.sent_rc]

\* lines 273-317 for a frame with scores: the streak, the checks before firing,
\* and the trigger; `manual` is what _manual_capture_active finds in the state
\* files at that moment, `enabled` what _wakeword_enabled reads
WkScored(scores, manual, enabled) ==
    /\ wk.pc = "run" /\ wk.triggers < MaxTriggers
    /\ LET name == TopModel(scores)
           streak == StreakAfterFrame(wk.streak_by_name, scores)
           w1 == [wk EXCEPT !.empty_frame_streak = 0, !.streak_by_name = streak,
                            !.consecutive = ConsecutiveAfterFrame(wk.consecutive, scores)]
           now == wk.clock
       IN IF scores[name] < WakeThreshold \/ streak[name] < MinConsecutive
          THEN /\ wk' = w1
               /\ wk_last' = [NoWkLast EXCEPT !.op = "frame"]
          ELSE IF manual
          THEN \* lines 295-299
               /\ wk' = [w1 EXCEPT !.streak_by_name[name] = 0]
               /\ wk_last' = [NoWkLast EXCEPT !.op = "skip_manual", !.detected = name, !.now = now]
          ELSE IF ~should_trigger_wake(now, wk.last_trigger_at, wk.rearm_until, enabled)
          THEN /\ wk' = w1
               /\ wk_last' = [NoWkLast EXCEPT !.op = "skip_rearm", !.detected = name, !.now = now]
          ELSE \E outs \in AttemptSeqs : WkTrigger(w1, name, now, outs)
    /\ WkFrame

\* time passes
WkTick ==
    /\ wk.clock < MaxWkClock
    /\ wk' = [wk EXCEPT !.clock = wk.clock + 1]
    /\ wk_last' = NoWkLast
    /\ WkFrame
WkNext ==
    \/ \E running \in BOOLEAN : WkNoFrame(running)
    \/ WkNoScores
    \/ \E scores \in WakeScores, manual \in BOOLEAN, enabled \in BOOLEAN : WkScored(scores, manual, enabled)
    \/ WkTick
WkSpec == Init /\ [][WkNext]_vars

(* ---- properties of RuntimeJobQueue (QueueSpec, QueueFairSpec) ---- *)
Range(s) == {s[i] : i \in DOMAIN s}
\* jobs whose submit call has returned None
RejectedJobs == {j \in JobIds : j < next_job_id /\ j \notin Range(accepted) /\ \A t \in Threads : tjob[t] # j}

\* C2: every accepted job receives exactly one terminal outcome (result, error or
\* cancelled), receives it once, keeps it, and under fair scheduling eventually
\* receives it, also when the worker dies and the supervisor replaces it.
C2_ExactlyOneOutcomeEventually ==
    /\ [](\A j \in JobIds : deliveries[j] <= 1)
    /\ [][\A j \in JobIds : FutureDone(future[j]) => future'[j] = future[j]]_vars
    /\ \A j \in JobIds : [](future[j].st = "pending" => <>FutureDone(future[j]))

\* C3: a cancel_by_name step removes every pending job of that name from the queue
\* and leaves its future cancelled, and the fn of a cancelled job is never invoked.
C3_CancelStep ==
    last_ret'.op = "cancel" =>
        \A j \in Range(pending_jobs) :
            job_name[j] = last_ret'.name => j \notin Range(pending_jobs') /\ future'[j].st = "cancelled"
C3_CancelledPendingNeverRuns ==
    /\ [](\A j \in JobIds : future[j].st = "cancelled" => fn_calls[j] = 0 /\ j \notin Range(pending_jobs))
    /\ [][C3_CancelStep]_vars
\* a job was cancelled while pending and the worker has since run a later job
C3_Witness ==
    \E p, q \in DOMAIN accepted :
        p < q /\ future[accepted[p]].st = "cancelled" /\ fn_calls[accepted[q]] = 1

\* C4: the pending count never exceeds max_size; a submit step returns None exactly
\* when the pending count equals max_size, and then enqueues nothing and its fn
\* never runs; otherwise it appends the job at the tail and returns its future.
C4_SubmitStep ==
    last_ret'.op = "submit" =>
        /\ (last_ret'.job = 0) <=> (Len(pending_jobs) = max_size)
        /\ last_ret'.job = 0 => pending_jobs' = pending_jobs
        /\ last_ret'.job # 0 => /\ last_ret'.job = last_ret'.made
                                /\ pending_jobs' = Append(pending_jobs, last_ret'.made)
                                /\ future'[last_ret'.made].st = "pending"
C9_Ended(j) == future[j].st = "cancelled" \/ (j \in Range(started) /\ worker_job # j)
C9_StartInAcceptanceOrder ==
    \A p, q \in DOMAIN accepted :
        (p < q /\ accepted[q] \in Range(started)) => C9_Ended(accepted[p])
\* two jobs were accepted in the opposite order of their ids and both have started
C9_Witness ==
    Len(started) >= 2 /\ started[1] > started[2]

\* C10: a cancel_by_name step returns true exactly when the running job or some
\* pending job had the name; it sets the running job's flag when the name matches
\* and changes no flag otherwise.
C10_CancelStep ==
    last_ret'.op = "cancel" =>
        LET n == last_ret'.name
            runs == running_job # 0 /\ job_name[running_job] = n
            pend == \E i \in DOMAIN pending_jobs : job_name[pending_jobs[i]] = n
        IN /\ last_ret'.hit <=> (runs \/ pend)
           /\ runs => cancel_event'[running_job]
           /\ \A j \in JobIds : ~(runs /\ j = running_job) => cancel_event'[j] = cancel_event[j]
C10_CancelReturnAndFlag == [][C10_CancelStep]_vars
\* a cancel hit a pending job while a job of another name was running unflagged
C10_Witness ==
    /\ last_ret.op = "cancel" /\ last_ret.hit
    /\ running_job # 0 /\ job_name[running_job] # last_ret.name /\ ~cancel_event[running_job]

(* ---- properties of the daemon (Spec) ---- *)
\* the capture subprocesses the daemon owns: the recorders of hold sessions, and the
\* stream of the endpointed or fixed-clip capture the worker is in
LiveCaptures ==
    Cardinality(procs) + (IF worker_pc = "fn" /\ fn_phase \in {"capture", "clip"} THEN 1 ELSE 0)

\* C1: at every instant the daemon owns at most one live capture subprocess, hold
\* recorders and capture streams counted together.
C1_AtMostOneCapture == LiveCaptures <= 1

\* C5: every transition for command-start, command-stop, dictate-start, dictate-stop
\* or wake-start follows the legal table: it is allowed exactly for the table's pairs
\* and then moves to the table's state, and a rejected one leaves the state unchanged.
C5_Actions == {"command-start", "command-stop", "dictate-start", "dictate-stop", "wake-start"}
\* the table: the target state of a legal pair, "" for a pair it rejects
C5_Legal(state, action) ==
    IF state = "idle"
    THEN (IF action = "command-start" THEN "command_hold"
          ELSE IF action = "dictate-start" THEN "dictate_hold"
          ELSE IF action = "wake-start" THEN "wake_session"
          ELSE "idle")
    ELSE IF state = "command_hold" /\ action = "command-start" THEN "command_hold"
    ELSE IF state = "command_hold" /\ action = "command-stop" THEN "transcribing"
    ELSE IF state = "dictate_hold" /\ action = "dictate-start" THEN "dictate_hold"
    ELSE IF state = "dictate_hold" /\ action = "dictate-stop" THEN "transcribing"
    ELSE ""
C5_TransitionStep ==
    last_tr'.action \in C5_Actions =>
        LET want == C5_Legal(machine_state, last_tr'.action) IN
        /\ last_tr'.previous_state = machine_state
        /\ last_tr'.allowed <=> (want # "")
        /\ machine_state' = (IF want # "" THEN want ELSE machine_state)
        /\ last_tr'.next_state = machine_state'
C5_TransitionFollowsTable == [][C5_TransitionStep]_vars
\* a wake-start has just been rejected while a stop was transcribing
C5_Witness ==
    last_tr.action = "wake-start" /\ last_tr.previous_state = "transcribing" /\ ~last_tr.allowed

C6_StopHitRunning(d, hits) ==
    d.req = "command-stop" /\ Len(d.ops) >= 1 /\ d.ops[1].arg = "command-auto" /\ d.ops[1].hit \in hits
C6_AutoHit(d, hits) == d.req = "command-auto" /\ d.hit \in hits
C6_EarlyStop(d) ==
    C6_StopHitRunning(d, {"capturing"}) /\ Len(d.ops) >= 3 /\ d.ops[3].op = "check" /\ d.ops[3].arg = "absent"
\* C6, amended: when a command-stop's cancel finds the command-auto job still in its
\* capture, the capture's next step returns 4 with nothing transcribed, handled or
\* notified, the command-auto request returns 4, the command-stop returns 0 if no
\* command hold descriptor exists, and neither return changes the state machine.
C6_CaptureStep ==
    (worker_pc = "fn" /\ fn_phase = "capture" /\ cancel_event[worker_job] /\ fn_phase' # "capture") =>
        /\ future'[worker_job].st = "result" /\ future'[worker_job].val = 4
        /\ effects'[worker_job] = {}
C6_ReturnStep ==
    (C6_EarlyStop(last_done') \/ C6_AutoHit(last_done', {"capturing"})) => machine_state' = machine_state
C7_Stops == {"dictate-stop", "command-stop"}
C7_CancelsFirst(log) ==
    /\ Len(log) >= 1 => (log[1].op = "cancel" /\ log[1].arg = "command-auto")
    /\ Len(log) >= 2 => (log[2].op = "cancel" /\ log[2].arg = "wake-start")
\* the stop's cancels hit a job and its check found no descriptor of its own kind
C7_OnlyCancelled(log) ==
    (log[1].hit # "miss" \/ log[2].hit # "miss") /\ log[3].arg = "absent"
C7_ReturnStep ==
    (last_done'.req \in C7_Stops /\ C7_OnlyCancelled(last_done'.ops)) =>
        /\ machine_state' = machine_state /\ last_tr' = NoTr
        /\ pending_jobs' = pending_jobs /\ next_job_id' = next_job_id
        /\ procs' = procs /\ state_file' = state_file
\* C7: a stop calls cancel_by_name for command-auto, then for wake-start, before
\* anything else; if a cancel hit and no descriptor of the stop's kind exists, it
\* returns 0 with no transition, no submitted job and no local stop.
C7_CancelFirstThenReturn ==
    /\ [](\A t \in Threads : req[t] \in C7_Stops => C7_CancelsFirst(ops[t]))
    /\ [](last_done.req \in C7_Stops =>
             /\ Len(last_done.ops) >= 3 /\ C7_CancelsFirst(last_done.ops)
             /\ last_done.ops[3].op = "check"
             /\ C7_OnlyCancelled(last_done.ops) =>
                    last_done.rc = 0 /\ Len(last_done.ops) = 3 /\ last_done.job = 0)
    /\ [][C7_ReturnStep]_vars
\* a dictate-stop that cancelled a wake-start job has returned 0 after its check
C7_Witness ==
    /\ last_done.req = "dictate-stop" /\ last_done.rc = 0 /\ Len(last_done.ops) = 3
    /\ last_done.ops[2].hit # "miss" /\ last_done.ops[3].arg = "absent"

C8_Modes == {"wake-start", "dictate-stop", "command-stop"}
C8_Admitted(log, mode) == \E i \in DOMAIN log : log[i].op = "transition" /\ log[i].arg = mode
C8_Issued(log) == {i \in DOMAIN log : log[i].op = "complete"}
C8_Right(mode, code) ==
    IF mode = "dictate-stop" THEN "dictate-stop-complete"
    ELSE IF mode = "command-stop" THEN "command-stop-complete"
    ELSE IF code = 0 THEN "wake-complete" ELSE "wake-failed"
C8_InFlight(modes) == \E t \in Threads : req[t] \in modes /\ C8_Admitted(ops[t], req[t])
\* C8: an admitted wake-start, dictate-stop or command-stop issues its completion
\* action exactly once, as its last act on every exit path, so the machine is in
\* WakeSession or Transcribing only while such a request has not yet returned.
C8_CompletionExactlyOnce ==
    /\ \A t \in Threads : C8_Issued(ops[t]) = {}
    /\ (last_done.req \in C8_Modes /\ C8_Admitted(last_done.ops, last_done.req)) =>
           /\ C8_Issued(last_done.ops) = {Len(last_done.ops)}
           /\ last_done.ops[Len(last_done.ops)].arg = C8_Right(last_done.req, last_done.rc)
           /\ last_tr.action = C8_Right(last_done.req, last_done.rc)
    /\ machine_state = "wake_session" => C8_InFlight({"wake-start"})
    /\ machine_state = "transcribing" => C8_InFlight({"dictate-stop", "command-stop"})
\* an admitted wake-start found the queue full and has returned after wake-failed
C8_Witness ==
    /\ last_done.req = "wake-start" /\ last_done.rc = 1
    /\ \E i \in DOMAIN last_done.ops : last_done.ops[i].op = "submit" /\ last_done.ops[i].arg = "full"
    /\ last_done.ops[Len(last_done.ops)].arg = "wake-failed"

(* ---- C11: a second command-auto against a queue of capacity 1 ---- *)
\* the queue holds one slot, its worker runs a command-auto and nothing is pending
C11_FirstRunning ==
    /\ max_size = 1 /\ pending_jobs = <<>>
    /\ running_job # 0 /\ job_name[running_job] = "command-auto"
\* the step hands thread t the future of a command-auto job it has just submitted
C11_Accepts(t) ==
    /\ req'[t] = "command-auto" /\ tjob[t] # next_job_id /\ tjob'[t] = next_job_id
    /\ pending_jobs' = <<next_job_id>>
\* C11: with capacity 1 and a first command-auto job running (pending = 0), a
\* second command-auto submitted before the first finishes is rejected: submit
\* hands out no future and the request returns 1.
C11_SecondAutoRejected ==
    [][C11_FirstRunning => \A t \in Threads : ~C11_Accepts(t)]_vars

(* ---- C12: the rc of _run_v2_queued_call ---- *)
\* the rc the claim gives for a finished future
C12_RcOf(f) ==
    IF f.st = "result" THEN f.val ELSE IF f.st = "cancelled" THEN 4 ELSE 1
\* the request that returns in this step found the queue full
C12_Rejected(d) ==
    d.ops # <<>> /\ \E i \in DOMAIN d.ops : d.ops[i].op = "submit" /\ d.ops[i].arg = "full"
C12_Step ==
    /\ \A t \in Threads :
         (pc[t] = "q_wait" /\ pc'[t] = "idle") =>
            /\ future[tjob[t]].st \in {"result", "cancelled", "exception"}
            /\ last_done'.req = req[t] /\ last_done'.job = tjob[t]
            /\ last_done'.rc = C12_RcOf(future[tjob[t]])
    /\ C12_Rejected(last_done') =>
            /\ last_done'.rc = 1 /\ last_done'.job = 0
            /\ \A t \in Threads : pc[t] = "q_wait" => pc'[t] = "q_wait"
\* C12: _run_v2_queued_call returns 1 without waiting when the queue rejects the
\* job, 4 when the job's future was cancelled, 1 when the job raised, and
\* otherwise exactly the job's integer result.
C12_QueuedCallRc == [][C12_Step]_vars
\* a dictate job raised in its handler and the request has returned 1
C12_Witness ==
    /\ last_done.req = "dictate" /\ last_done.rc = 1 /\ last_done.job # 0
    /\ "handled" \in last_done.did

(* ---- properties of one connection (ConnSpec) ---- *)
\* C13: every accepted connection receives exactly one response line before it is
\* closed, whatever the request: valid, unknown, empty, oversize, malformed, JSON
\* that is not an object, an input that is not a string, or a handler that raises.
C13_ExactlyOneResponse ==
    /\ \A i \in DOMAIN conn_log : conn_log[i].sent = 1
    /\ conn.sent <= 1

\* the closed connection carried a JSON object without an input member, or with
\* one that normalisation accepts and whose normalised value is not an allowed action
C14_NotAllowed(c) ==
    /\ c.wire = "json" /\ c.json = "object"
    /\ \/ c.input = "absent"
       \/ c.input \in {"#null", "#number"}
       \/ /\ c.input \in InputStrings
          /\ (IF c.input = "text" THEN "dictate" ELSE c.input) \notin ALLOWED_INPUT_MODES
\* C14: a request whose alias-normalised action is not in the allow-list, a request
\* without an input field included, is answered rc=2 and no handler runs for it.
C14_RejectedWithRc2 ==
    \A i \in DOMAIN conn_log :
        C14_NotAllowed(conn_log[i]) =>
            conn_log[i].sent = 1 /\ conn_log[i].rc = 2 /\ conn_log[i].ran = ""

(* ---- C15: a stop with no hold session of its kind ---- *)
C15_Stops == {"dictate-stop", "command-stop"}
C15_Kind(mode) == IF mode = "dictate-stop" THEN "dictate" ELSE "command"
C15_OwnHold(mode) == IF mode = "dictate-stop" THEN "dictate_hold" ELSE "command_hold"
\* the returned stop saw no descriptor of its kind and its job, if any, did nothing
C15_NoSession(d) ==
    /\ d.req \in C15_Stops /\ d.did = {}
    /\ Len(d.ops) >= 3 /\ d.ops[3].op = "check" /\ d.ops[3].arg = "absent"
\* a step of a stop request taken with no descriptor of its kind and outside its Hold state
C15_StepWithoutSession(t) ==
    /\ req[t] \in C15_Stops /\ pc'[t] # pc[t]
    /\ state_file[C15_Kind(req[t])] = 0 /\ machine_state # C15_OwnHold(req[t])
C15_Accepted(d) ==
    \A i \in DOMAIN d.ops : d.ops[i].op # "rejected" /\ ~(d.ops[i].op = "submit" /\ d.ops[i].arg = "full")
C15_AdmitStep ==
    \A t \in Threads :
        (req[t] \in C15_Stops /\ pc[t] = "s_trans" /\ pc'[t] # "s_trans" /\ machine_state = "idle") =>
            machine_state' = "idle" /\ pc'[t] = "q_submit"
C15_FnStep ==
    (/\ worker_pc = "fn" /\ fn_phase = "none" /\ job_name[worker_job] \in C15_Stops
     /\ state_file[C15_Kind(job_name[worker_job])] = 0
     /\ (worker_pc' # worker_pc \/ fn_phase' # fn_phase)) =>
        /\ future'[worker_job] = [st |-> "result", val |-> 0]
        /\ procs' = procs /\ state_file' = state_file /\ effects' = effects
        /\ machine_state' = machine_state
C15_CompleteStep ==
    \A t \in Threads :
        (req[t] \in C15_Stops /\ pc[t] \in {"q_wait", "finally"} /\ pc'[t] = "idle" /\ machine_state = "idle") =>
            machine_state' = "idle"
C16_StopAlwaysCleans ==
    (h_last.op = "stop" /\ h_last.found.form # "none") =>
        /\ h_desc.form = "none"
        /\ h_last.found.sid \notin h_tmpdirs

\* the start in this step finds the descriptor a start wrote, fresh, with its tmpdir
C17_SecondStart ==
    /\ h_last'.op = "start"
    /\ h_desc.form = "ok" /\ h_desc.tmpdir = "own" /\ h_desc.audio = "own" /\ h_desc.started = "fresh"
    /\ h_desc.sid \in h_tmpdirs /\ h_ffmpeg /\ h_tampers = 0
C17_Step ==
    C17_SecondStart =>
        LET first == h_desc.sid
            second == h_last'.sid
        IN /\ h_last'.out = "return" /\ h_last'.rc = 0 /\ second # first
           /\ h_desc' = [form |-> "ok", sid |-> second, tmpdir |-> "own", audio |-> "own", started |-> "fresh"]
           /\ h_tmpdirs' = (h_tmpdirs \ {first}) \cup {second}
           /\ h_procs'[second] = "recorder"
           /\ h_procs'[first] # "recorder"
           /\ h_procs[first] = "foreign" => (h_procs'[first] = "foreign" /\ h_last'.signalled = {})
\* C17: two dictate-start requests in immediate succession both return 0; the second
\* preempts the first through its stop path, so that afterwards the descriptor and
\* the only tmpdir left of the two are the second session's, and the first recorder
\* has exited or was refused signalling by the identity check.
C17_SecondStartPreempts ==
    /\ []((h_last.op = "start" /\ h_last.out = "return" /\ h_last.rc = 0) =>
             /\ h_desc = [form |-> "ok", sid |-> h_last.sid, tmpdir |-> "own", audio |-> "own", started |-> "fresh"]
             /\ h_last.sid \in h_tmpdirs /\ h_procs[h_last.sid] = "recorder")
    /\ [][C17_Step]_vars
\* a second start has returned 0 after signalling the first session's recorder, and
\* the second session's tmpdir is the only one
C17_Witness ==
    /\ h_last.op = "start" /\ h_last.out = "return" /\ h_last.rc = 0
    /\ h_last.found.form = "ok" /\ h_last.signalled = {h_last.found.sid}
    /\ h_tmpdirs = {h_last.sid} /\ h_desc.sid = h_last.sid

\* the stop or preemption of this step signals only a pid that is alive, matches
\* the recorder's command line and belongs to a session that is not stale
C18_SignalStep ==
    h_last'.op \in {"stop", "start"} =>
        /\ \A s \in h_last'.signalled :
              /\ s = h_last'.found.sid /\ h_last'.found.started # "old"
              /\ h_procs[s] = "recorder"
        /\ \A s \in Sessions : (h_procs'[s] # h_procs[s] /\ h_procs[s] # "none") => s \in h_last'.signalled
\* the stop of this step took a pid from the descriptor and a check on it failed
C18_CheckFailed ==
    /\ h_last'.op = "stop" /\ h_last'.found.form \in {"ok", "bad_path"} /\ h_last'.found.sid > 0
    /\ (h_procs[h_last'.found.sid] # "recorder" \/ h_last'.found.started = "old")
C18_CleanStep ==
    C18_CheckFailed =>
        /\ h_last'.signalled = {} /\ h_procs' = h_procs
        /\ h_desc'.form = "none"
        /\ h_last'.found.tmpdir = "own" => h_last'.found.sid \notin h_tmpdirs'
\* C18: a pid from a persisted descriptor is signalled only if it is alive, its
\* cmdline has every required substring and the session is not older than the
\* maximal age; if a check fails no signal is sent, and the descriptor and the
\* tmpdir are cleaned all the same.
C18_SignalOnlyVerifiedPid ==
    /\ [][C18_SignalStep]_vars
    /\ [][C18_CleanStep]_vars

\* the descriptor the stop found names a tmpdir outside the temp root or none, or
\* an audio_path outside the tmpdir or none
C19_BadPaths(d) == d.form = "ok" /\ (d.tmpdir # "own" \/ d.audio # "own")
C19_Step ==
    (h_last'.op = "stop" /\ C19_BadPaths(h_last'.found)) =>
        /\ h_last'.out = "return" /\ h_last'.rc = 1
        /\ h_desc'.form = "none"
        /\ h_foreign' = h_foreign
        /\ h_last'.read = ""
\* C19: a hold stop whose descriptor names a tmpdir that is no descendant of the temp
\* root, or an audio_path outside that tmpdir, or lacks either, returns 1, removes
\* the descriptor, deletes nothing at the named tmpdir and reads no audio.
C19_PathsValidated == [][C19_Step]_vars

(* ---- properties of the voice_controls daemon (VcSpec) ---- *)
\* C20: between requests no tmpdir of a hold session is left without a descriptor
\* that references it, so that every started session can still be cleaned by its
\* stop, by preemption, or by recovery after a restart, whichever request comes
\* first.
C20_NoOrphanTmpdir == \A s \in vc_tmpdirs : recovery_state = s

(* ---- properties of endpointed capture (EpSpec) ---- *)
\* C21: an endpointed capture is over no later than session_max_seconds after it
\* started, give or take the one read that was under way, and its buffer holds no
\* more frames than fit into that time, whatever the stream delivers.
C21_CaptureBounded ==
    ep.pc \in {"loop", "captured"} =>
        /\ ep.clock < SessionMaxTicks + ReadTimeoutTicks
        /\ ep.frames <= SessionMaxTicks

\* the pre-roll bytes the session prepended carry speech
C22_PrerollSpeech == ep.preroll.len >= 2 /\ ep.preroll.peak >= RmsThreshold
C23_Usable == ep.file.exists /\ ep.file.readable /\ ep.file.age <= PrerollMaxAge
\* C23: the capture prepends the pre-roll file's bytes only for a wake-start
\* session and only if the file's age is at most the maximal age; an older, missing
\* or unreadable file contributes no byte and cannot set the pre-roll speech flag.
C23_PrerollOnlyFreshWake ==
    ep.pc # "idle" =>
        /\ ep.preroll.len > 0 => (ep.source = "wake_start" /\ C23_Usable)
        /\ (ep.source = "wake_start" /\ C23_Usable) =>
               ep.preroll = [len |-> ep.file.len, peak |-> ep.file.peak]
        /\ ~(ep.source = "wake_start" /\ C23_Usable) =>
               (ep.preroll = [len |-> 0, peak |-> 0] /\ ~ep.had_preroll_speech)
\* a wake session prepended a pre-roll with speech that was exactly of the maximal age
C23_Witness ==
    /\ ep.pc = "loop" /\ ep.source = "wake_start" /\ ep.file.age = PrerollMaxAge
    /\ ep.preroll.len = 2 /\ ep.had_preroll_speech

(* ---- properties of the wake listener (WkSpec) ---- *)
\* the positions of the events of the last trigger that are of the given kind
C24_At(kind) == {i \in 1..Len(wk_last.events) : wk_last.events[i] = kind}
\* C24: on a trigger the listener writes the pre-roll, then stops its stream, then
\* sends wake-start at most once and spawns no daemon, and starts its stream again
\* exactly once after that, whatever the rc and also when the request raises.
C24_TriggerStopsSendsRestarts ==
    wk_last.op = "trigger" =>
        /\ wk_last.events[1] = "write_preroll" /\ wk_last.events[2] = "stream_stop"
        /\ Cardinality(C24_At("send")) <= 1 /\ wk_last.sends <= 1
        /\ C24_At("spawn") = {} /\ wk_last.spawns = 0
        /\ Cardinality(C24_At("stream_start")) = 1
        /\ \A i \in C24_At("send") : i > 2 /\ \A j \in C24_At("stream_start") : i < j
        /\ ~wk_last.raised => wk_last.events[Len(wk_last.events)] = "stream_start"
\* a trigger whose request was sent and then raised
C24_Witness == wk_last.op = "trigger" /\ wk_last.raised /\ wk_last.sends = 1

\* the reason the claim names for an rc
C25_Reason(c) ==
    IF c = 0 THEN "ok" ELSE IF c = 3 THEN "no_speech" ELSE IF c = 4 THEN "cancelled"
    ELSE IF c = 2 THEN "stale_daemon" ELSE IF c = 1 THEN "busy_or_error" ELSE "rc_other"
C25_Step ==
    (wk_last'.op = "trigger" /\ ~wk_last'.raised) =>
        LET now == wk_last'.now
            c == wk_last'.rc
        IN /\ c = 0 => (wk'.last_trigger_at = now /\ wk'.rearm_until = wk.rearm_until)
           /\ c = 3 => (wk'.last_trigger_at = now /\ wk'.rearm_until = now + NoSpeechRearmTicks)
           /\ c \notin {0, 3} => (wk'.last_trigger_at = wk.last_trigger_at
                                  /\ wk'.rearm_until = now + ErrorRearmTicks)
           /\ wk'.counts = [wk.counts EXCEPT ![C25_Reason(c)] = wk.counts[C25_Reason(c)] + 1]
\* C25: for a trigger taken at `now`, rc 0 sets last_trigger_at to now and leaves
\* rearm_until; rc 3 sets last_trigger_at to now and rearm_until to now plus the
\* no-speech interval; every other rc leaves last_trigger_at and sets rearm_until to
\* now plus the error interval; exactly the counter of the rc's reason goes up by one.
C25_ApplyResult == [][C25_Step]_vars
\* a cancelled trigger was counted and rearmed for the error interval
C25_Witness ==
    /\ wk_last.op = "trigger" /\ wk_last.rc = 4 /\ wk.counts["cancelled"] = 1
    /\ wk.rearm_until = wk_last.now + ErrorRearmTicks /\ wk.last_trigger_at # wk_last.now

\* the step sends a wake-start
C26_Sends == wk_last'.op = "trigger" /\ wk_last'.sends > 0
C26_GuardStep ==
    C26_Sends => /\ wk_last'.now >= wk.rearm_until
                 /\ wk_last'.now - wk.last_trigger_at >= CooldownTicks
C26_SpacingStep ==
    (C26_Sends /\ wk.sent_at # -1) => wk_last'.now - wk.sent_at >= CooldownTicks
\* C26 as stated: a wake-start is sent only at or past rearm_until and cooldown_ms
\* after the last trigger, and any two consecutive wake-start requests are at least
\* cooldown_ms apart whatever the outcome of the first.
C26_AlwaysCooldownApart == [][C26_GuardStep]_vars /\ [][C26_SpacingStep]_vars
C26_AmendedSpacingStep ==
    (C26_Sends /\ wk.sent_at # -1) =>
        /\ wk.sent_rc \in {0, 3} => wk_last'.now - wk.sent_at >= CooldownTicks
        /\ wk.sent_rc \notin {0, 3} => wk_last'.now - wk.sent_at >= ErrorRearmTicks
\* C26 amended: two consecutive wake-start requests are at least cooldown_ms apart
\* when the first returned rc 0 or 3, and at least the error rearm interval apart
\* when it was cancelled or failed.
C26_CooldownAfterOkOrNoSpeech == [][C26_GuardStep]_vars /\ [][C26_AmendedSpacingStep]_vars
\* a wake-start was sent less than cooldown_ms after one that failed
C26_Witness ==
    /\ wk_last.op = "trigger" /\ wk_last.sends = 1 /\ wk_last.after_rc = 1
    /\ wk_last.since = ErrorRearmTicks /\ wk_last.since < CooldownTicks

\* C27: the wake word counts as detected only after min_consecutive frames without
\* a gap in which that same model scored at or above the threshold.
C27_DetectedAfterConsecutive ==
    wk_last.detected # "" => wk.consecutive[wk_last.detected] >= MinConsecutive

(* ---- properties of the command-line client (ClSpec) ---- *)
\* C28: within one invocation, once a response line has been received (whatever its
\* rc, an rc that cannot be parsed, or a malformed line) the request is not sent
\* again, so the daemon never answers one invocation's request twice.
C28_NoResendAfterResponse ==
    [][(cl.pc = "try" /\ cl.received > 0) => cl'.sends = cl.sends]_vars

(* ---- properties of daemon start-up (SuSpec) ---- *)
\* the processes that hold a socket bound by them
C29_Bound == {p \in Starters : su.pc[p] \in {"listen", "serving"}}
\* no step of another process takes away the socket file of a process that bound it
C29_FileStep ==
    \A q \in Starters :
        (q \in C29_Bound /\ su.sock_file = q /\ su'.pc[q] = su.pc[q]) => su'.sock_file = q
\* C29: whatever the interleaving of two start-ups, at most one process is bound to
\* and serving the socket path, and the other never unlinks or replaces the socket
\* file of the process that bound it.
C29_SingleInstance ==
    /\ [](Cardinality(C29_Bound) <= 1)
    /\ [][C29_FileStep]_vars

(* ---- properties of daemon shutdown (SdSpec) ---- *)
\* C30: a daemon that was sent SIGTERM or SIGINT accepts no further connection, and
\* when it has exited the socket path is unlinked and the capture process of the
\* session that was active has been signalled, also when the signal arrived while a
\* request was being handled.
C30_CleanShutdown ==
    /\ []((sd.pc = "exited" /\ sd.signals > 0) => (~sd.sock_file /\ sd.recorder # "running"))
    /\ [][sd.signals > 0 => sd'.served <= sd.served]_vars

(* ---- properties of the start-failed actions (Spec) ---- *)
C31_Failed == {"command-start-failed", "dictate-start-failed"}
C31_OwnHold(action) == IF action = "command-start-failed" THEN "command_hold" ELSE "dictate_hold"
C31_Step ==
    last_tr'.action \in C31_Failed =>
        /\ last_tr'.allowed <=> (machine_state = C31_OwnHold(last_tr'.action))
        /\ last_tr'.allowed => machine_state' = "idle"
        /\ ~last_tr'.allowed => machine_state' = machine_state
\* C31: command-start-failed (dictate-start-failed) is allowed, and moves to Idle,
\* only from CommandHold (DictateHold); in every other state it is rejected and the
\* state is unchanged.
C31_StartFailedOnlyFromOwnHold == [][C31_Step]_vars

C32_Starts == {"dictate-start", "command-start"}
C32_Has(log, what) == \E i \in DOMAIN log : log[i].op = what
C32_Step ==
    (last_done'.req \in C32_Starts /\ C32_Has(last_done'.ops, "raised")) =>
        C32_Has(last_done'.ops, "failed")
\* C32: when the hold-start handler of an admitted dictate-start or command-start
\* ends by raising, the request has still issued its *-start-failed action before
\* it returns.
C32_RaisedStartEmitsFailed == [][C32_Step]_vars

C33_Requests == {"command-start", "command-stop", "dictate-start", "dictate-stop", "wake-start"}
C33_CaptureActive(state) == state \in {"command_hold", "dictate_hold", "wake_session", "transcribing"}
C33_Step ==
    (last_tr'.action \in C33_Requests /\ ~last_tr'.allowed) =>
        /\ C33_CaptureActive(machine_state) => last_tr'.reason = "runtime_busy"
        /\ last_tr'.reason = "invalid_transition" => ~C33_CaptureActive(machine_state)
\* C33: a transition that rejects command-start, command-stop, dictate-start,
\* dictate-stop or wake-start while another capture is active gives the reason
\* runtime_busy; invalid_transition is given only when no capture is active.
C33_BusyReason == [][C33_Step]_vars

(* ---- the single worker and its supervisor (QueueSpec) ---- *)
\* the worker is inside a job's fn
C34_InFn == worker_pc = "fn"
C34_OneFn ==
    C34_InFn =>
        /\ worker_job # 0 /\ started # <<>> /\ worker_job = started[Len(started)]
        /\ \A i \in 1..(Len(started) - 1) : started[i] # worker_job
        /\ snapshot.running_job_id = worker_job
        /\ snapshot.running_job_name = job_name[worker_job]
C34_RestartStep ==
    worker_restarts' # worker_restarts =>
        /\ worker_pc = "dead" /\ worker_pc' # "dead"
        /\ worker_restarts' = worker_restarts + 1
\* C34: at most one job's fn executes at a time, and snapshot reports that job as
\* the running job while it does; the supervisor starts a replacement worker,
\* adding exactly one to worker_restarts, only when the current worker is dead.
C34_OneWorkerOneJob == [](C34_OneFn) /\ [][C34_RestartStep]_vars
\* a replacement worker is executing a job's fn
C34_Witness == worker_restarts = 1 /\ worker_pc = "fn" /\ running_job = worker_job /\ Len(started) = 2

(* ---- a failing preemption (HoldSpec) ---- *)
C35_Step ==
    (h_last'.op = "start" /\ h_desc.form # "none") =>
        /\ h_last'.out = "return"
        /\ h_last'.rc = (IF h_ffmpeg THEN 0 ELSE 1)
        /\ h_ffmpeg => (h_last'.sid > 0 /\ h_procs'[h_last'.sid] = "recorder"
                        /\ h_desc'.form = "ok" /\ h_desc'.sid = h_last'.sid)
\* C35: a hold start that finds a descriptor runs the stop path as a preemption, and
\* however that stop ends - rc 0, non-zero, or an exception - the new session is
\* started and the start's rc is the outcome of starting the new session alone.
C35_PreemptFailureNotSurfaced == [][C35_Step]_vars

(* ---- properties of EndpointVAD (VdSpec) ---- *)
\* of the first n frames given, those at or above the threshold
C36_SpeechFrames(n) == {i \in 1..n : vd.fed[i] >= vd.rms_threshold}
\* the accumulated speech of the first n frames reaches min_speech_ms
C36_Reached(n) == Cardinality(C36_SpeechFrames(n)) * vd.frame_ms >= vd.min_speech_ms
\* the frames after the last speech frame
C36_Trailing ==
    {i \in 1..Len(vd.fed) : \A j \in C36_SpeechFrames(Len(vd.fed)) : j < i}
C36_State ==
    vd.pc = "run" =>
        /\ vd.has_started <=> (\E n \in 1..Len(vd.fed) : C36_Reached(n))
        /\ vd.op = "frame" =>
             /\ vd.ret.has_started = vd.has_started
             /\ vd.ret.endpoint <=>
                  (vd.has_started /\ Cardinality(C36_Trailing) * vd.frame_ms >= vd.end_silence_ms)
\* C36: has_started is false until the accumulated duration of the speech frames
\* first reaches min_speech_ms, true from that frame on and never false again; once
\* started, a frame reports the endpoint exactly when the silence since the last
\* speech frame is at least end_silence_ms, silence before the start never counting.
C36_StartAndEndpoint == [](C36_State) /\ [][vd.has_started => vd'.has_started]_vars
\* speech, a pause, speech again: started on the third frame, then the endpoint
C36_Witness ==
    /\ vd.op = "frame" /\ vd.ret.endpoint /\ Len(vd.fed) = 5
    /\ vd.min_speech_ms = 2 * vd.frame_ms
    /\ vd.fed[1] >= vd.rms_threshold /\ vd.fed[2] < vd.rms_threshold /\ vd.fed[3] >= vd.rms_threshold

(* ---------------------------------------------------------------------- *)
\* C37: while the queued job of a dictate-stop or command-stop that was
\* admitted from a Hold state is pending or running, the state machine stays in
\* Transcribing: no completion issued for another request takes it to Idle
\* early.
C37_AdmittedFromHold(log) ==
    \E i \in DOMAIN log :
        /\ log[i].op = "transition"
        /\ log[i].hit \in {"command_hold", "dictate_hold"}
C37_JobUnfinished(t) ==
    /\ req[t] \in {"dictate-stop", "command-stop"}
    /\ pc[t] = "q_wait"
    /\ future[tjob[t]].st = "pending"
    /\ C37_AdmittedFromHold(ops[t])
C37_TranscribingUntilJobDone ==
    \A t \in Threads : C37_JobUnfinished(t) => machine_state = "transcribing"

(* ---------------------------------------------------------------------- *)
\* C38: whenever the state machine is Idle and no request is being handled,
\* no hold session exists: no hold recorder process is alive and no hold
\* descriptor file is present.
C38_Quiet == \A t \in Threads : pc[t] = "idle"
C38_NoSessionWhenIdle ==
    (machine_state = "idle" /\ C38_Quiet) =>
        (procs = {} /\ \A k \in {"dictate", "command"} : state_file[k] = 0)

(* ---- the connection pool in front of the execution queue ---- *)
\* serve_with_thread_pool (controller.py) hands every accepted connection to a
\* ThreadPoolExecutor; a handler of a queued mode blocks in future.result()
\* (_run_v2_queued_call) until the single execution worker has run its job.  No
\* hold session and no wake session exists here, so the state machine stays
\* Idle: it admits every command-stop and rejects every completion.
PlFrame == UNCHANGED <<core_vars, first_vars, ep_vars, wk_vars, cl_vars, su_vars, sd_vars, vd_vars, tg_vars>>
PlSet(w, rec) == [pl.w EXCEPT ![w] = rec]

\* lines 47-54: accept, and executor.submit puts the connection in the
\* executor's unbounded work queue
PlAccept(mode) ==
    /\ pl.accepted < MaxPoolRequests
    /\ pl' = [pl EXCEPT !.backlog = Append(@, mode), !.accepted = @ + 1, !.last = NoPoolOp]
    /\ PlFrame

\* an idle pool thread takes the oldest connection and reads its request
PlTake(w) ==
    /\ pl.w[w].pc = "idle" /\ pl.backlog # <<>>
    /\ pl' = [pl EXCEPT !.backlog = Tail(@),
                        !.w = PlSet(w, [pc |-> "handle", mode |-> Head(pl.backlog), job |-> 0]),
                        !.last = NoPoolOp]
    /\ PlFrame

\* RuntimeJobQueue.submit as _run_v2_queued_call calls it (app.py 1037-1043):
\* None when the queue is full, and the handler returns 1
PlQueued(w, mode) ==
    IF Len(pl.pending) >= PoolQueueMax
    THEN pl' = [pl EXCEPT !.w = PlSet(w, PoolIdle), !.last = [NoPoolOp EXCEPT !.op = "full"]]
    ELSE pl' = [pl EXCEPT !.pending = Append(@, pl.next_job),
                          !.name[pl.next_job] = mode,
                          !.fut[pl.next_job] = "pending",
                          !.next_job = @ + 1,
                          !.w = PlSet(w, [pc |-> "wait", mode |-> pl.w[w].mode, job |-> pl.next_job]),
                          !.last = [NoPoolOp EXCEPT !.op = "submit", !.job = pl.next_job]]

\* cancel_by_name (job_queue.py 108-132) for the long-running names: the flag
\* of a running job of that name is set, pending ones are cancelled and dropped
PlLongRunning(j) == pl.name[j] \in {"command-auto", "wake-start"}
PlCancelHits == (pl.running # 0 /\ PlLongRunning(pl.running))
                    \/ \E i \in DOMAIN pl.pending : PlLongRunning(pl.pending[i])
PlCancelled ==
    [pl EXCEPT !.flag = [j \in PoolJobs |-> IF j = pl.running /\ PlLongRunning(j) THEN TRUE ELSE pl.flag[j]],
               !.fut = [j \in PoolJobs |->
                           IF (\E i \in DOMAIN pl.pending : pl.pending[i] = j) /\ PlLongRunning(j)
                           THEN "cancelled" ELSE pl.fut[j]],
               !.pending = SelectSeq(pl.pending, LAMBDA j : ~PlLongRunning(j))]

\* _run_voice_capture_v2 / _run_command_auto_v2: the queued call
PlSubmit(w) ==
    /\ pl.w[w].pc = "handle" /\ pl.w[w].mode \in {"voice", "command-auto"}
    /\ PlQueued(w, pl.w[w].mode)
    /\ PlFrame

\* _run_command_stop_v2 lines 1137-1140: cancel the long-running jobs and, when
\* one was hit and no descriptor exists, return 0
PlStop(w) ==
    /\ pl.w[w].pc = "handle" /\ pl.w[w].mode = "command-stop"
    /\ pl' = [PlCancelled EXCEPT
                 !.w = PlSet(w, IF PlCancelHits THEN PoolIdle
                                ELSE [pc |-> "admitted", mode |-> "command-stop", job |-> 0]),
                 !.last = [op |-> "cancel", job |-> pl.running,
                           flag |-> pl.running # 0 /\ PlLongRunning(pl.running)]]
    /\ PlFrame

\* lines 1142-1148: nothing was cancelled, the stop is admitted Idle -> Idle
\* and its own job is queued
PlStopQueued(w) ==
    /\ pl.w[w].pc = "admitted"
    /\ PlQueued(w, "command-stop")
    /\ PlFrame

\* _worker_loop: the execution worker takes the oldest pending job
PlJobTake ==
    /\ pl.running = 0 /\ pl.pending # <<>>
    /\ pl' = [pl EXCEPT !.running = Head(pl.pending), !.pending = Tail(@), !.last = NoPoolOp]
    /\ PlFrame

\* the running job's fn returns or raises, on its own or because it saw its
\* cancel flag, and the worker completes the future (lines 159-167)
PlJobEnd ==
    /\ pl.running # 0
    /\ pl' = [pl EXCEPT !.running = 0, !.fut[pl.running] = "result",
                        !.last = [op |-> "end", job |-> pl.running, flag |-> pl.flag[pl.running]]]
    /\ PlFrame

\* future.result() returns or raises CancelledError: the handler returns and
\* the pool thread is free again
PlReturn(w) ==
    /\ pl.w[w].pc = "wait" /\ pl.fut[pl.w[w].job] \in {"result", "cancelled"}
    /\ pl' = [pl EXCEPT !.w = PlSet(w, PoolIdle), !.last = NoPoolOp]
    /\ PlFrame

PlNext ==
    \/ \E mode \in PoolModes : PlAccept(mode)
    \/ \E w \in PoolWorkers : PlTake(w)
    \/ \E w \in PoolWorkers : PlSubmit(w)
    \/ \E w \in PoolWorkers : PlStop(w)
    \/ \E w \in PoolWorkers : PlStopQueued(w)
    \/ PlJobTake
    \/ PlJobEnd
    \/ \E w \in PoolWorkers : PlReturn(w)
PlSpec == Init /\ [][PlNext]_vars

(* ---------------------------------------------------------------------- *)
\* C39: a command-stop that arrives while a command-auto or wake-start job is
\* running is handled before the job finishes on its own: requests blocked
\* waiting on their queued jobs never occupy every connection worker while the
\* stop waits for one.
C39_StopWaiting == \E i \in DOMAIN pl.backlog : pl.backlog[i] \in {"command-stop", "dictate-stop"}
C39_JobRunning ==
    /\ pl.running # 0
    /\ pl.name[pl.running] \in {"command-auto", "wake-start"}
    /\ ~pl.flag[pl.running]
C39_AllBlocked ==
    \A w \in PoolWorkers : pl.w[w].pc = "wait" /\ pl.fut[pl.w[w].job] = "pending"
C39_StopNotStarved == ~(C39_StopWaiting /\ C39_JobRunning /\ C39_AllBlocked)

(* ---- the wake word flag: _handle_wakeword_toggle_input (app.py 835-861) ---- *)
TgFrame == UNCHANGED <<core_vars, first_vars, ep_vars, wk_vars, cl_vars, su_vars, sd_vars, vd_vars, pl_vars>>

\* read_wakeword_enabled, state_utils.py 89-101: the default when there is no file
read_wakeword_enabled(f) == IF f.exists THEN f.enabled ELSE WAKEWORD_ENABLED_DEFAULT
\* set_wakeword_enabled, lines 125-130: write_private_text replaces the file
\* in one rename
set_wakeword_enabled(enabled) == [exists |-> TRUE, enabled |-> enabled]
\* line 849: enabled = not read_wakeword_enabled()
toggled(v) == ~v

\* wakeword-enable / wakeword-disable, lines 836-846: one write
TgSet(i, value) ==
    /\ tg.t[i].pc = "idle" /\ tg.sets < MaxSets
    /\ tg' = [tg EXCEPT !.file = set_wakeword_enabled(value),
                        !.base = value, !.toggles = 0, !.sets = @ + 1]
    /\ TgFrame

\* wakeword-toggle, line 849: the flag is read and negated
TgToggleRead(i) ==
    /\ tg.t[i].pc = "idle" /\ tg.begun < MaxToggles
    /\ tg' = [tg EXCEPT !.t[i] = [pc |-> "write", enabled |-> toggled(read_wakeword_enabled(tg.file))],
                        !.begun = @ + 1]
    /\ TgFrame

\* wakeword-toggle, lines 850-853: the negated value is written and the
\* handler returns 0
TgToggleWrite(i) ==
    /\ tg.t[i].pc = "write"
    /\ tg' = [tg EXCEPT !.file = set_wakeword_enabled(tg.t[i].enabled),
                        !.t[i] = [pc |-> "idle", enabled |-> FALSE],
                        !.toggles = @ + 1]
    /\ TgFrame

TgNext ==
    \/ \E i \in TgThreads, value \in BOOLEAN : TgSet(i, value)
    \/ \E i \in TgThreads : TgToggleRead(i)
    \/ \E i \in TgThreads : TgToggleWrite(i)
TgSpec == Init /\ [][TgNext]_vars

(* ---------------------------------------------------------------------- *)
\* C40: wakeword-toggle is atomic with respect to concurrent wakeword-enable,
\* wakeword-disable and wakeword-toggle requests: once N toggle requests have
\* been handled after the flag was last set to v, in any interleaving, the
\* persisted flag is v flipped N times.
C40_NoneInFlight == \A i \in TgThreads : tg.t[i].pc = "idle"
C40_Persisted == IF tg.file.exists THEN tg.file.enabled ELSE FALSE
C40_ToggleAtomic ==
    C40_NoneInFlight => (C40_Persisted = IF tg.toggles % 2 = 0 THEN tg.base ELSE ~tg.base)

====
